---- MODULE Spec2Model ----
(***************************************************************************)
(* Model of the engram memory engine (src/engram/storage.py, graph.py;    *)
(* the ChainMind helper of chainmind_helper.py comes after the engine):    *)
(* the SQLite record store, the ChromaDB vector index and the NetworkX     *)
(* knowledge graph, and the MemoryStore operations that keep them in step. *)
(*                                                                         *)
(* One SQLite connection is shared by every operation and no code path     *)
(* calls rollback, so a write is visible to every later statement whether  *)
(* or not its commit has run yet: db.execute is modelled as applied at     *)
(* once.  Fixed-point numbers are per-mille (importance, similarity,       *)
(* relevance) or millionths (score terms).                                 *)
(***************************************************************************)
EXTENDS Integers, Sequences, FiniteSets, TLC

\* ------------------------------------------------------------------ bounds
\* Number of memory ids uuid4 hands out in one behaviour of Spec, and the cap
\* on surface_count / access_count there (a search that would pass it is
\* disabled).
MaxMem == 2
MaxCount == 1
\* The same two bounds for SpecSurface, which counts up to the validation
\* threshold and beyond.
SurfaceMaxMem == 2
SurfaceMaxCount == 6
\* The bound of SpecEntity: memory ids handed out.
EntityMaxMem == 2
\* The bounds of SpecRank.
RankMaxMem == 2
RankMaxCount == 6
\* Graph calls the threads of SpecThreads make, together.
ThreadMaxCalls == 3
\* The helper: its cache_size, the failures in a row a provider's tracking
\* is driven to, and how many of a provider's latest health updates are
\* remembered.
CacheSize == 2
HelperMaxFailures == 4
OutcomeWindow == 4
\* Cap on link and validate calls (together) in one behaviour.
MaxLinks == 1
\* The bounds of SpecGraph: memory ids handed out, and link and validate
\* calls.
GraphMaxMem == 3
GraphMaxLinks == 1
\* The bounds of SpecWrite: memory ids handed out, and the cap on the
\* counters.
WriteMaxMem == 3
WriteMaxCount == 1
\* The bounds of SpecContext.
ContextMaxMem == 3
ContextMaxCount == 2
\* The bounds of SpecFault.
FaultMaxMem == 3
FaultMaxCount == 3
\* The bounds of SpecRole.
RoleMaxMem == 2
RoleMaxCount == 2

\* ------------------------------------------------------------------ inputs
MemIdNames == <<"mem_1", "mem_2", "mem_3", "mem_4", "mem_5", "mem_6">>
MemId(n) == MemIdNames[n]
NoId == ""
NoProject == ""
NoRole == ""
\* the role '' (NoRole stands for None)
EmptyRole == "<empty string>"

ContentUse == "Use SQLite for MVP"
ContentAvoid == "Avoid SQLite for MVP"
ContentGoal == "Goal: monetization"
QueryOther == "python tutorial"
Contents == {ContentUse, ContentAvoid}
LinkRelations == {"supersedes", "bogus"}
\* the members of RelationType (all of them) and those of EntityType that
\* the model uses
RelationTypes ==
    {"mentions", "supersedes", "precedes", "evolved_from", "active_during",
     "caused_by", "motivated_by", "resulted_in", "blocked_by", "enabled_by",
     "triggered_by", "part_of", "contains", "instance_of", "phase_of",
     "version_of", "requires", "enables", "blocks", "conflicts_with",
     "depends_on", "similar_to", "related_to", "example_of", "contradicts",
     "reinforces", "applies_to"}
EntityTypes == {"project", "concept", "goal"}

\* ------------------------------------------------------------------ helpers
Range(s) == {s[i] : i \in DOMAIN s}
Min(a, b) == IF a < b THEN a ELSE b
Max(a, b) == IF a > b THEN a ELSE b

RECURSIVE Perms(_)
Perms(S) ==
    IF S = {} THEN {<<>>}
    ELSE UNION {{<<x>> \o p : p \in Perms(S \ {x})} : x \in S}

\* f restricted to the keys outside D
Drop(f, D) == [k \in DOMAIN f \ D |-> f[k]]
\* f with key k bound to v (added or replaced)
Put(f, k, v) == [x \in DOMAIN f \cup {k} |-> IF x = k THEN v ELSE f[x]]

\* ---------------------------------------------------------------- embedder
\* The sentence-transformer is an opaque collaborator: a vector entry is
\* represented by the text it was embedded from, and the cosine distance of
\* two texts is tabulated (per-mille) for the texts of the model.
Distance(a, b) ==
    IF a = b THEN 0
    ELSE IF a \in Contents /\ b \in Contents THEN 300
    ELSE 800

\* query_keywords: lowercased words of the query minus stopwords and words
\* of length <= 2 ("for" is a stopword).
QueryKeywords(query) ==
    IF query = ContentUse THEN {"use", "sqlite", "mvp"}
    ELSE IF query = ContentAvoid THEN {"avoid", "sqlite", "mvp"}
    ELSE IF query = ContentGoal THEN {"goal", "monetization"}
    ELSE IF query = QueryOther THEN {"python", "tutorial"}
    ELSE {}

\* `word in content.lower()` for the words the code looks for.
ContainsWord(content, w) ==
    IF content = ContentUse THEN w \in {"use", "sqlite", "mvp"}
    ELSE IF content = ContentAvoid THEN w \in {"avoid", "sqlite", "mvp"}
    ELSE IF content = ContentGoal THEN w \in {"goal", "monetization"}
    ELSE FALSE

\* ------------------------------------------------------------- scoring
\* max(0, similarity) ** 1.3 in millionths, at the similarities of the model
SimilarityWeight(similarity) ==
    IF similarity >= 1000 THEN 1000000
    ELSE IF similarity = 700 THEN 628966
    ELSE IF similarity = 200 THEN 123407
    ELSE 0

\* reinforcement = 1 + 0.1 * log1p(access_count), in millionths
ReinforcementTable ==
    <<1000000, 1069315, 1109861, 1138629, 1160944, 1179176, 1194591, 1207944,
      1219722>>
Reinforcement(access_count) ==
    ReinforcementTable[Min(access_count, Len(ReinforcementTable) - 1) + 1]

\* math.exp(-0.023 * days_since_touch): every operation of a behaviour
\* happens within a day of the memory's creation, so days_since_touch = 0.
DecayFactor == 1000000

\* bool(role): None and '' are false
Truthy(role) == role \notin {NoRole, EmptyRole}

\* the role affinity with `if current_role and source_role:` left out
RoleAffinityEqualOnly(current_role, source_role) ==
    IF current_role = source_role THEN 1150 ELSE 1000

RoleAffinity(current_role, source_role) ==
    IF Truthy(current_role) /\ Truthy(source_role) /\ current_role = source_role
    THEN 1150 ELSE 1000

KeywordMatches(keywords, content) ==
    Cardinality({w \in keywords : ContainsWord(content, w)})

KeywordBoost(keywords, content) ==
    IF keywords = {} THEN 1000
    ELSE 1000 + (KeywordMatches(keywords, content) * 250) \div Cardinality(keywords)

\* composite relevance, rounded to three decimals (per-mille)
Composite(row, similarity, keywords, current_role) ==
    LET base == (SimilarityWeight(similarity) * 55) \div 100
                + (DecayFactor * 15) \div 100
                + Min(Reinforcement(row.access_count) \div 10, 120000)
        importance_factor == 500 + row.importance \div 2
        scaled == (((base * importance_factor) \div 1000)
                     * KeywordBoost(keywords, row.content)) \div 1000
        composite == (scaled * RoleAffinity(current_role, row.source_role)) \div 1000
    IN  (composite + 500) \div 1000

\* ------------------------------------------------------------------- state
VARIABLES
    records,    \* SQLite table memories: id -> row
    vectors,    \* ChromaDB collection: id -> embedded text + metadata
    nodes,      \* knowledge graph nodes: id -> attributes
    edges,      \* knowledge graph edges (nx.DiGraph: one per ordered pair)
    accessLog,  \* SQLite table access_log: memory id -> number of rows
    nextId,     \* number of memory ids generated so far
    links,      \* number of link and validate calls so far
    last,       \* the last top-level call and what it returned
    pc,         \* thread -> the statement of its graph call it is at
    frame,      \* thread -> the locals of its graph call
    disk,       \* knowledge_graph.json as the threads' save() calls wrote it
    done,       \* memory id -> validate_memory calls that have returned
    health,     \* ChainMindHelper._provider_health: provider -> tracking
    cache,      \* ChainMindHelper._response_cache: its keys, oldest first
    outcomes,   \* provider -> its latest health updates (TRUE: success)
    uses        \* cache keys by their latest insertion or hit, oldest first

\* Threads that call one KnowledgeGraph directly.  Only SpecThreads runs
\* them; in every other specification each call runs alone from its first
\* statement to its last, and these four variables keep their first values.
threadVars == <<pc, frame, disk, done>>

\* The ChainMind helper's state.  Only SpecHelper and SpecHelperLive call
\* the helper; every other specification leaves it as constructed.
helperVars == <<health, cache, outcomes, uses>>

sideVars == <<threadVars, helperVars>>

vars == <<records, vectors, nodes, edges, accessLog, nextId, links, last, sideVars>>

Threads == {"t1", "t2"}
NoFrame == [op |-> "none"]

\* The three stores and the log as one value, so that an operation that
\* calls another (context -> recall, consolidate -> remember) composes them.
Cur == [records |-> records, vectors |-> vectors, nodes |-> nodes,
        edges |-> edges, accessLog |-> accessLog]

Apply(S) ==
    /\ records' = S.records
    /\ vectors' = S.vectors
    /\ nodes' = S.nodes
    /\ edges' = S.edges
    /\ accessLog' = S.accessLog

GeneratedIds == {MemId(n) : n \in 1..nextId}

\* --------------------------------------------------------- knowledge graph
ConceptMVP == [entity_type |-> "concept", name |-> "MVP"]
ConceptMonetization == [entity_type |-> "concept", name |-> "monetization"]
GoalMonetization == [entity_type |-> "goal", name |-> "monetization"]

\* KnowledgeGraph.extract_entities on the texts of the model.  The SQLite
\* texts contain the known concept "MVP" and no other known entity, episode
\* code or path; the goal text contains "monetization", which is listed as
\* a concept and as a goal (KNOWN_ENTITIES is scanned in that order).
ExtractEntities(content) ==
    IF content \in Contents THEN <<ConceptMVP>>
    ELSE IF content = ContentGoal THEN <<ConceptMonetization, GoalMonetization>>
    ELSE <<>>

\* str.lower() on the names of the model
Lower(name) == IF name = "MVP" THEN "mvp" ELSE name

\* the id built from the name as it was given, without name.lower()
MakeEntityIdCased(e) == "entity:" \o e.entity_type \o ":" \o e.name

\* f"entity:{entity_type.value}:{name.lower()}"
MakeEntityId(e) == "entity:" \o e.entity_type \o ":" \o Lower(e.name)

EntityNode(e) ==
    [node_type |-> "entity", entity_type |-> e.entity_type, name |-> e.name,
     status |-> "active", priority |-> "", description |-> ""]

EdgeAttributes(src, dst, edge_type, strength, confidence, created_by, bidirectional) ==
    [src |-> src, dst |-> dst, edge_type |-> edge_type, strength |-> strength,
     confidence |-> confidence, created_by |-> created_by,
     bidirectional |-> bidirectional, order |-> 0]

\* nx.DiGraph.add_edge: the graph keeps one edge per ordered pair, so an
\* edge between the same pair has its attributes replaced.  order is the
\* edge's place in the adjacency dicts (insertion order; a replaced edge
\* keeps its place), which is the order predecessors() iterates in.
AddEdge(E, e) ==
    LET same == {x \in E : x.src = e.src /\ x.dst = e.dst}
        order == IF same # {} THEN (CHOOSE x \in same : TRUE).order
                 ELSE Cardinality(E) + 1
    IN  (E \ same) \cup {[e EXCEPT !.order = order]}

RECURSIVE LinkEntities(_, _, _)
LinkEntities(G, memory_id, entities) ==
    IF entities = <<>> THEN G
    ELSE LET e == Head(entities)
             entity_id == MakeEntityId(e)
             N == IF entity_id \in DOMAIN G.nodes THEN G.nodes
                  ELSE Put(G.nodes, entity_id, EntityNode(e))
             E == AddEdge(G.edges,
                          EdgeAttributes(memory_id, entity_id, "mentions", 500, 1000,
                                         "auto", FALSE))
         IN  LinkEntities([G EXCEPT !.nodes = N, !.edges = E], memory_id, Tail(entities))

Impact(importance) ==
    IF importance > 700 THEN "high" ELSE IF importance > 400 THEN "medium" ELSE "low"

\* KnowledgeGraph.add_memory
GraphAddMemory(G, memory_id, content, memory_type, project, source_role, importance) ==
    LET node == [node_type |-> "memory", memory_type |-> memory_type,
                 project |-> project, source_role |-> source_role,
                 status |-> "active", confidence |-> importance,
                 impact |-> Impact(importance), validation_count |-> 0]
        entities == ExtractEntities(content)
                    \o (IF project # NoProject
                        THEN <<[entity_type |-> "project", name |-> project]>>
                        ELSE <<>>)
    IN  LinkEntities([G EXCEPT !.nodes = Put(G.nodes, memory_id, node)],
                     memory_id, entities)

\* KnowledgeGraph.validate_memory
GraphValidate(N, memory_id) ==
    IF memory_id \in DOMAIN N
    THEN LET validations == N[memory_id].validation_count + 1
         IN  [N EXCEPT ![memory_id].validation_count = validations,
                       ![memory_id].confidence = Min(950, 500 + 100 * validations)]
    ELSE N

\* KnowledgeGraph._get_reverse_relation: reverses.get(relation), NoRelation
\* for None
NoRelation == ""
GetReverseRelation(relation) ==
    IF relation = "part_of" THEN "contains"
    ELSE IF relation = "contains" THEN "part_of"
    ELSE IF relation = "requires" THEN "enables"
    ELSE IF relation = "enables" THEN "requires"
    ELSE IF relation = "blocks" THEN "blocked_by"
    ELSE IF relation = "blocked_by" THEN "blocks"
    ELSE IF relation = "supersedes" THEN "precedes"
    ELSE IF relation = "caused_by" THEN "resulted_in"
    ELSE IF relation = "resulted_in" THEN "caused_by"
    ELSE NoRelation

\* the edges after the `if bidirectional:` block of add_relationship
AddReverseEdge(E, source_id, target_id, relation_type, strength, confidence, created_by, bidirectional) ==
    LET reverse_type == GetReverseRelation(relation_type)
    IN  IF bidirectional /\ reverse_type # NoRelation
        THEN AddEdge(E, EdgeAttributes(target_id, source_id, reverse_type,
                                       strength, confidence, created_by, TRUE))
        ELSE E

\* add_relationship without the two has_node tests
GraphAddRelationshipUnchecked(G, source_id, target_id, relation_type, strength, confidence, created_by, bidirectional) ==
    [graph |-> [G EXCEPT !.edges =
                   AddReverseEdge(
                       AddEdge(G.edges,
                               EdgeAttributes(source_id, target_id, relation_type,
                                              strength, confidence, created_by,
                                              bidirectional)),
                       source_id, target_id, relation_type, strength, confidence,
                       created_by, bidirectional)],
     ok |-> TRUE]

\* KnowledgeGraph.add_relationship
GraphAddRelationship(G, source_id, target_id, relation_type, strength, confidence, created_by, bidirectional) ==
    IF source_id \notin DOMAIN G.nodes \/ target_id \notin DOMAIN G.nodes
    THEN [graph |-> G, ok |-> FALSE]
    ELSE [graph |-> [G EXCEPT !.edges =
                        AddReverseEdge(
                            AddEdge(G.edges,
                                    EdgeAttributes(source_id, target_id, relation_type,
                                                   strength, confidence, created_by,
                                                   bidirectional)),
                            source_id, target_id, relation_type, strength,
                            confidence, created_by, bidirectional)],
          ok |-> TRUE]

\* KnowledgeGraph.update_memory_status
GraphUpdateStatus(G, memory_id, status) ==
    IF memory_id \in DOMAIN G.nodes
    THEN [G EXCEPT !.nodes[memory_id].status = status]
    ELSE G

\* KnowledgeGraph.supersede
GraphSupersede(G, new_memory_id, old_memory_id) ==
    GraphUpdateStatus(
        GraphAddRelationship(G, new_memory_id, old_memory_id, "supersedes",
                             1000, 1000, "auto", FALSE).graph,
        old_memory_id, "superseded")

\* KnowledgeGraph.add_entity: add_node replaces the attributes of a node
\* that is already there
GraphAddEntity(N, e) == Put(N, MakeEntityId(e), EntityNode(e))

\* the `for predecessor in self.graph.predecessors(current)` loop: the first
\* predecessor whose edge is a supersedes edge, or none
SupersededBy(E, current) ==
    LET P == {e \in E : e.dst = current /\ e.edge_type = "supersedes"}
    IN  IF P = {} THEN NoId
        ELSE (CHOOSE e \in P : \A x \in P : e.order <= x.order).src

\* the loop of get_current_version without the `not in visited` test
RECURSIVE FollowUnguarded(_, _, _, _)
FollowUnguarded(E, current, visited, iterations) ==
    LET superseded_by == SupersededBy(E, current)
    IN  IF iterations = 0 THEN [version |-> current, returned |-> FALSE]
        ELSE IF superseded_by # NoId
        THEN FollowUnguarded(E, superseded_by, visited \cup {superseded_by},
                             iterations - 1)
        ELSE [version |-> current, returned |-> TRUE]

\* the `while True` loop of get_current_version, run for at most the given
\* number of iterations: returned tells whether it reached its return
RECURSIVE FollowSupersedes(_, _, _, _)
FollowSupersedes(E, current, visited, iterations) ==
    LET superseded_by == SupersededBy(E, current)
    IN  IF iterations = 0 THEN [version |-> current, returned |-> FALSE]
        ELSE IF superseded_by # NoId /\ superseded_by \notin visited
        THEN FollowSupersedes(E, superseded_by, visited \cup {superseded_by},
                              iterations - 1)
        ELSE [version |-> current, returned |-> TRUE]

\* KnowledgeGraph.get_current_version, allowed one iteration per node of
\* the graph and one more
GetCurrentVersion(N, E, memory_id) ==
    FollowSupersedes(E, memory_id, {memory_id}, Cardinality(DOMAIN N) + 1)

\* ------------------------------------------------------------ vector index
\* collection.query(where=...): the entries that satisfy the equality filter
WhereMatches(V, project, memory_types) ==
    {m \in DOMAIN V :
        /\ project # NoProject => V[m].project = project
        /\ Cardinality(memory_types) = 1 => V[m].memory_type \in memory_types}

\* ChromaDB rejects a where clause with two keys (project and memory_type).
WhereInvalid(project, memory_types) ==
    project # NoProject /\ Cardinality(memory_types) = 1

\* collection.query(n_results=k): the k nearest matching ids by ascending
\* distance; the order of equidistant entries is the index's own choice.
QueryResults(V, query, k, project, memory_types) ==
    LET M == WhereMatches(V, project, memory_types)
        n == Min(k, Cardinality(M))
        D(m) == Distance(query, V[m].content)
    IN  {s \in UNION {Perms(T) : T \in {T \in SUBSET M : Cardinality(T) = n}} :
            /\ \A i \in 1..(n - 1) : D(s[i]) <= D(s[i + 1])
            /\ \A x \in M \ Range(s) : \A i \in 1..n : D(s[i]) <= D(x)}

\* ------------------------------------------------------------------ recall
ValidationThreshold == 5

\* memories.sort(key=relevance) without reverse=True: a stable ascending sort
SortAscending(ms) ==
    LET n == Len(ms)
        rank(i) == 1 + Cardinality({j \in 1..n :
                        \/ ms[j].relevance < ms[i].relevance
                        \/ (ms[j].relevance = ms[i].relevance /\ j < i)})
    IN  [r \in 1..n |-> ms[CHOOSE i \in 1..n : rank(i) = r]]

\* memories.sort(key=relevance, reverse=True): a stable descending sort
SortByRelevance(ms) ==
    LET n == Len(ms)
        rank(i) == 1 + Cardinality({j \in 1..n :
                        \/ ms[j].relevance > ms[i].relevance
                        \/ (ms[j].relevance = ms[i].relevance /\ j < i)})
    IN  [r \in 1..n |-> ms[CHOOSE i \in 1..n : rank(i) = r]]

\* the per-row body of recall's loop: the result entry built from the row
\* as it was read (before the counters are bumped)
MemoryData(memory_id, row, distance, keywords, current_role) ==
    [id |-> memory_id, content |-> row.content, memory_type |-> row.memory_type,
     project |-> row.project, source_role |-> row.source_role,
     importance |-> row.importance,
     relevance |-> Composite(row, 1000 - distance, keywords, current_role),
     similarity |-> 1000 - distance,
     role_affinity |-> RoleAffinity(current_role, row.source_role),
     keyword_matches |-> KeywordMatches(keywords, row.content),
     access_count |-> row.access_count]

\* recall's UPDATE without `access_count = access_count + 1`
SurfacedNoAccess(row) ==
    [row EXCEPT !.surface_count = @ + 1,
                !.validated = @ \/ (row.surface_count + 1 >= ValidationThreshold)]

\* recall comparing the surface count it read, not the one it wrote, with
\* the threshold
SurfacedLate(row) ==
    [row EXCEPT !.access_count = @ + 1,
                !.surface_count = @ + 1,
                !.validated = @ \/ (row.surface_count >= ValidationThreshold)]

\* the row after recall's UPDATE statements
Surfaced(row) ==
    [row EXCEPT !.access_count = @ + 1,
                !.surface_count = @ + 1,
                !.validated = @ \/ (row.surface_count + 1 >= ValidationThreshold)]

RECURSIVE ValidateAll(_, _)
ValidateAll(N, ids) ==
    IF ids = {} THEN N
    ELSE LET m == CHOOSE x \in ids : TRUE
         IN  ValidateAll(GraphValidate(N, m), ids \ {m})

\* MemoryStore.recall, given the ids the index returned (cands).  log_fails:
\* every log_access call raises (and is caught by recall's except clause).
RecallWith(S, query, limit, memory_types, current_role, cands, log_fails) ==
    LET InTable(m) == m \in DOMAIN S.records
        hits == SelectSeq(cands, InTable)
        hitSet == Range(hits)
        keywords == QueryKeywords(query)
        memories == [i \in 1..Len(hits) |->
                        MemoryData(hits[i], S.records[hits[i]],
                                   Distance(query, S.vectors[hits[i]].content),
                                   keywords, current_role)]
        newly == {m \in hitSet :
                    /\ S.records[m].surface_count + 1 >= ValidationThreshold
                    /\ ~S.records[m].validated}
        TypeOk(m) == m.memory_type \in memory_types
        filtered == IF Cardinality(memory_types) > 1
                    THEN SelectSeq(memories, TypeOk) ELSE memories
        sorted == SortByRelevance(filtered)
    IN  [store |-> [S EXCEPT
            !.records = [m \in DOMAIN S.records |->
                            IF m \in hitSet THEN Surfaced(S.records[m])
                            ELSE S.records[m]],
            !.nodes = ValidateAll(S.nodes, newly),
            !.accessLog = IF log_fails THEN S.accessLog
                          ELSE [m \in DOMAIN S.accessLog \cup hitSet |->
                                  (IF m \in DOMAIN S.accessLog THEN S.accessLog[m]
                                   ELSE 0)
                                  + (IF m \in hitSet THEN 1 ELSE 0)]],
         result |-> SubSeq(sorted, 1, Min(limit, Len(sorted))),
         fetched |-> hitSet]

\* MemoryStore.recall when the access log can be written
RecallOn(S, query, limit, memory_types, current_role, cands) ==
    RecallWith(S, query, limit, memory_types, current_role, cands, FALSE)

\* ------------------------------------------------------ contradiction scan
ContradictionSignals ==
    << <<"don't", "do">>, <<"do", "don't">>, <<"never", "always">>,
       <<"always", "never">>, <<"avoid", "use">>, <<"use", "avoid">>,
       <<"disable", "enable">>, <<"enable", "disable">>, <<"not", "">>,
       <<"", "not">>, <<"prefer", "avoid">>, <<"instead of", "use">>,
       <<"sqlite", "postgresql">>, <<"postgresql", "sqlite">>,
       <<"typescript", "javascript">>, <<"javascript", "typescript">>,
       <<"react", "vue">>, <<"vue", "react">> >>

SimilarityThreshold == 500
VerySimilar == 550

\* the `for sig_a, sig_b in contradiction_signals` loop, from pair i on
RECURSIVE ScanSignals(_, _, _)
ScanSignals(content, mem_content, i) ==
    IF i > Len(ContradictionSignals) THEN ""
    ELSE LET sig_a == ContradictionSignals[i][1]
             sig_b == ContradictionSignals[i][2]
         IN  IF sig_a # "" /\ sig_b # ""
             THEN IF ContainsWord(content, sig_a) /\ ContainsWord(mem_content, sig_b)
                  THEN "flipped"
                  ELSE ScanSignals(content, mem_content, i + 1)
             ELSE IF sig_a # ""
             THEN IF ContainsWord(content, sig_a) # ContainsWord(mem_content, sig_a)
                  THEN "negation"
                  ELSE ScanSignals(content, mem_content, i + 1)
             ELSE ScanSignals(content, mem_content, i + 1)

ConflictReason(content, mem) ==
    IF mem.similarity < SimilarityThreshold THEN ""
    ELSE LET signal == ScanSignals(content, mem.content, 1)
         IN  IF signal # "" THEN signal
             ELSE IF /\ mem.similarity > VerySimilar
                     /\ mem.memory_type \in {"fact", "preference", "decision", "pattern"}
                  THEN "similar"
                  ELSE ""

\* MemoryStore.check_contradictions: a recall(query=content, limit=10) and
\* the scan of what it returned
CheckContradictions(S, content, cands) ==
    LET r == RecallOn(S, content, 10, {}, NoRole, cands)
        Conflicts(mem) == ConflictReason(content, mem) # ""
    IN  [store |-> r.store, conflicts |-> SelectSeq(r.result, Conflicts),
         fetched |-> r.fetched]

\* ---------------------------------------------------------- auto-extraction
\* The goal / blocker / pattern regexes and the relationship keywords of
\* _auto_extract, on the texts of the model.  The SQLite texts contain none
\* of "goal:", "blocked by", "because", "requires", ...; in the goal text
\* r'goal:\s*(.+?)(?:\.|$)' captures "monetization" (longer than 5), which
\* becomes a goal entity linked by motivated_by with confidence 0.9.
PatternHits(content, memory_type) ==
    IF content = ContentGoal
    THEN <<[entity_type |-> "goal", name |-> "monetization",
            relation |-> "motivated_by", confidence |-> 900]>>
    ELSE <<>>

RECURSIVE AddHits(_, _, _)
AddHits(G, memory_id, hits) ==
    IF hits = <<>> THEN G
    ELSE LET h == Head(hits)
             e == [entity_type |-> h.entity_type, name |-> h.name]
             entity_id == MakeEntityId(e)
             G1 == [G EXCEPT !.nodes = Put(G.nodes, entity_id, EntityNode(e))]
             G2 == GraphAddRelationship(G1, memory_id, entity_id, h.relation,
                                        1000, h.confidence, "claude", FALSE).graph
         IN  AddHits(G2, memory_id, Tail(hits))

AutoExtract(G, memory_id, content, memory_type) ==
    AddHits(G, memory_id, PatternHits(content, memory_type))

\* ---------------------------------------------------------------- remember
Clamp(importance) == Max(0, Min(1000, importance))

NewRow(content, memory_type, importance, project, source_role, consolidated_from) ==
    [content |-> content, memory_type |-> memory_type, project |-> project,
     source_role |-> source_role, importance |-> importance,
     access_count |-> 0, surface_count |-> 0, validated |-> FALSE,
     superseded_by |-> NoId, consolidated_into |-> NoId,
     consolidated_from |-> consolidated_from]

\* the document and metadata of collection.add (`source_role or ""`)
VectorEntry(content, memory_type, project, source_role, importance) ==
    [content |-> content, memory_type |-> memory_type, project |-> project,
     source_role |-> IF source_role = NoRole THEN EmptyRole ELSE source_role,
     importance |-> importance]

RECURSIVE SupersedeAll(_, _, _)
SupersedeAll(G, memory_id, olds) ==
    IF olds = {} THEN G
    ELSE LET old == CHOOSE x \in olds : TRUE
         IN  SupersedeAll(GraphSupersede(G, memory_id, old), memory_id, olds \ {old})

\* MemoryStore.remember after the conflict check, with the id uuid4 gave.
\* fail names the step that raises: the embedder, collection.add, the
\* graph's save() at the end of add_memory, or ("extract") the save() of the
\* first add_entity of _auto_extract, which can only happen when a pattern
\* matched.  No handler catches it and no earlier write is undone, so the
\* stores stay as the steps before it left them.
RememberOn(S, memory_id, content, memory_type, importance, project, source_role, consolidated_from, supersede, fail) ==
    LET S1 == [S EXCEPT
                 !.records = [m \in DOMAIN S.records |->
                                IF m \in supersede
                                THEN [S.records[m] EXCEPT !.superseded_by = memory_id]
                                ELSE S.records[m]],
                 !.vectors = Drop(S.vectors, supersede)]
        S2 == [S1 EXCEPT !.records =
                 Put(S1.records, memory_id,
                     NewRow(content, memory_type, importance, project, source_role,
                            consolidated_from))]
        S3 == [S2 EXCEPT !.vectors =
                 Put(S2.vectors, memory_id,
                     VectorEntry(content, memory_type, project, source_role, importance))]
        G3 == [nodes |-> S3.nodes, edges |-> S3.edges]
        G4 == GraphAddMemory(G3, memory_id, content, memory_type, project,
                             source_role, importance)
        G5 == SupersedeAll(G4, memory_id, supersede)
        G6 == AutoExtract(G5, memory_id, content, memory_type)
        hits == PatternHits(content, memory_type)
        first == [entity_type |-> hits[1].entity_type, name |-> hits[1].name]
    IN  IF fail = "embed" THEN [store |-> S1, status |-> "EmbedError"]
        ELSE IF fail = "vector" THEN [store |-> S2, status |-> "StorageError"]
        ELSE IF fail = "graph"
        THEN [store |-> [S3 EXCEPT !.nodes = G4.nodes, !.edges = G4.edges],
              status |-> "StorageError"]
        ELSE IF fail = "extract" /\ hits # <<>>
        THEN [store |-> [S3 EXCEPT
                           !.nodes = Put(G5.nodes, MakeEntityId(first),
                                         EntityNode(first)),
                           !.edges = G5.edges],
              status |-> "StorageError"]
        ELSE [store |-> [S3 EXCEPT !.nodes = G6.nodes, !.edges = G6.edges],
              status |-> "ok"]

\* ----------------------------------------------------------------- actions
Ids(ms) == [i \in 1..Len(ms) |-> ms[i].id]

\* what `last` keeps of a call: its name and outcome, the id it returned or
\* was given, the ids of the memories it returned, and its list argument
\* (for a recall: its memory_types and project filters)
Called(op, status, id, result, args) ==
    [op |-> op, status |-> status, id |-> id, result |-> result, args |-> args]

\* a call that was given an importance, with the importance it was given
WithImportance(call, importance) == call @@ [importance |-> importance]

\* what a recall returned, entry by entry: the relevance, access_count and
\* role_affinity fields of the entry, and the place of its id in the list
\* the index returned
Ranked(result, cands) ==
    [i \in 1..Len(result) |->
        [id |-> result[i].id, relevance |-> result[i].relevance,
         access_count |-> result[i].access_count,
         role_affinity |-> result[i].role_affinity,
         fetched_at |-> CHOOSE k \in 1..Len(cands) : cands[k] = result[i].id]]

WithRanked(call, result, cands) == call @@ [ranked |-> Ranked(result, cands)]

\* a call in which the named step was made to fail
WithFault(call, fail) == call @@ [fail |-> fail]

\* every row the index returned can still be counted without passing MaxCount
CanSurface(R, cands, times, maxCount) ==
    \A m \in Range(cands) \cap DOMAIN R : R[m].surface_count + times <= maxCount

Init ==
    /\ records = <<>>
    /\ vectors = <<>>
    /\ nodes = <<>>
    /\ edges = {}
    /\ accessLog = <<>>
    /\ nextId = 0
    /\ links = 0
    /\ last = Called("init", "ok", NoId, <<>>, {})
    /\ pc = [t \in Threads |-> "idle"]
    /\ frame = [t \in Threads |-> NoFrame]
    /\ disk = [nodes |-> <<>>, edges |-> {}]
    /\ done = <<>>
    /\ health = <<>>
    /\ cache = <<>>
    /\ outcomes = <<>>
    /\ uses = <<>>

\* MemoryStore.remember: the conflict check (when asked for) and, unless it
\* found conflicts, the store
Remember(content, memory_type, importance, project, source_role, check_conflicts, supersede, fail, maxMem, maxCount) ==
    \E cands \in (IF check_conflicts
                  THEN QueryResults(vectors, content, 20, project, {})
                  ELSE {<<>>}) :
        LET scan == IF check_conflicts
                    THEN CheckContradictions(Cur, content, cands)
                    ELSE [store |-> Cur, conflicts |-> <<>>, fetched |-> {}]
            memory_id == MemId(nextId + 1)
            r == RememberOn(scan.store, memory_id, content, memory_type,
                            Clamp(importance), project, source_role, {},
                            supersede, fail)
        IN  /\ CanSurface(records, cands, 1, maxCount)
            /\ IF scan.conflicts # <<>>
               THEN /\ Apply(scan.store)
                    /\ last' = WithFault(
                                  WithImportance(
                                      Called("remember", "conflicts_found", NoId,
                                             Ids(scan.conflicts), supersede),
                                      importance),
                                  fail)
                    /\ UNCHANGED <<nextId, links, sideVars>>
               ELSE /\ nextId < maxMem
                    /\ Apply(r.store)
                    /\ nextId' = nextId + 1
                    /\ last' = WithFault(
                                  WithImportance(
                                      Called("remember", r.status, memory_id,
                                             <<>>, supersede),
                                      importance),
                                  fail)
                    /\ UNCHANGED <<links, sideVars>>

Recall(query, limit, project, memory_types, current_role, maxCount) ==
    IF WhereInvalid(project, memory_types)
    THEN /\ last' = Called("recall", "error", NoId, <<>>, {})
         /\ UNCHANGED <<records, vectors, nodes, edges, accessLog, nextId, links, sideVars>>
    ELSE \E cands \in QueryResults(vectors, query, 2 * limit, project, memory_types) :
            LET r == RecallOn(Cur, query, limit, memory_types, current_role, cands)
            IN  /\ CanSurface(records, cands, 1, maxCount)
                /\ Apply(r.store)
                /\ last' = WithRanked(
                              Called("recall", "ok", NoId, Ids(r.result),
                                     [query |-> query,
                                      memory_types |-> memory_types,
                                      project |-> project, limit |-> limit,
                                      current_role |-> current_role]),
                              r.result, cands)
                /\ UNCHANGED <<nextId, links, sideVars>>

\* MemoryStore.recall while every access-log append fails
RecallLogError(query, limit, project, memory_types, current_role, maxCount) ==
    /\ ~WhereInvalid(project, memory_types)
    /\ \E cands \in QueryResults(vectors, query, 2 * limit, project, memory_types) :
          LET r == RecallWith(Cur, query, limit, memory_types, current_role,
                              cands, TRUE)
          IN  /\ CanSurface(records, cands, 1, maxCount)
              /\ Apply(r.store)
              /\ last' = WithFault(
                            Called("recall", "ok", NoId, Ids(r.result),
                                   [memory_types |-> memory_types,
                                    project |-> project, limit |-> limit]),
                            "log")
              /\ UNCHANGED <<nextId, links, sideVars>>

\* call_tool("engram_remember"): without confirmed (and without
\* auto-approve) the preview, which looks for similar memories with
\* store.recall(query=content, limit=3); with confirmed the store call, with
\* check_conflicts=False and the role of the session as source_role
RememberTool(content, memory_type, importance, project, current_role, supersede, confirmed, maxMem, maxCount) ==
    IF confirmed
    THEN Remember(content, memory_type, importance, project, current_role,
                  FALSE, supersede, "none", maxMem, maxCount)
    ELSE \E cands \in QueryResults(vectors, content, 2 * 3, NoProject, {}) :
            LET similar == RecallOn(Cur, content, 3, {}, NoRole, cands)
            IN  /\ CanSurface(records, cands, 1, maxCount)
                /\ Apply(similar.store)
                /\ last' = Called("remember_tool", "preview", NoId,
                                  Ids(similar.result), supersede)
                /\ UNCHANGED <<nextId, links, sideVars>>

\* MemoryStore._detect_project
DetectProject(cwd) ==
    IF cwd = "/mnt/dev/ai/engram-mcp/src" THEN "engram-mcp" ELSE NoProject

RECURSIVE Unique(_, _)
Unique(ms, seen) ==
    IF ms = <<>> THEN <<>>
    ELSE IF Head(ms).id \in seen THEN Unique(Tail(ms), seen)
    ELSE <<Head(ms)>> \o Unique(Tail(ms), seen \cup {Head(ms).id})

\* context without the `if not m["project"]` filter on the second recall
ContextUnfiltered(query, cwd, limit, current_role, maxCount) ==
    LET project == DetectProject(cwd)
    IN  IF project # NoProject
        THEN \E c1 \in QueryResults(vectors, query, 2 * limit, project, {}) :
             \E c2 \in QueryResults(vectors, query, 2 * limit, NoProject, {}) :
                LET r1 == RecallOn(Cur, query, limit, {}, current_role, c1)
                    r2 == RecallOn(r1.store, query, limit, {}, current_role, c2)
                    universal == r2.result
                    unique == Unique(r1.result \o universal, {})
                    memories == SubSeq(unique, 1, Min(limit, Len(unique)))
                IN  /\ CanSurface(records, c1, 2, maxCount)
                    /\ CanSurface(records, c2, 2, maxCount)
                    /\ Apply(r2.store)
                    /\ last' = Called("context", "ok", NoId, Ids(memories),
                                      [project |-> project, limit |-> limit])
                    /\ UNCHANGED <<nextId, links, sideVars>>
        ELSE \E cands \in QueryResults(vectors, query, 2 * limit, NoProject, {}) :
                LET r == RecallOn(Cur, query, limit, {}, current_role, cands)
                IN  /\ CanSurface(records, cands, 1, maxCount)
                    /\ Apply(r.store)
                    /\ last' = Called("context", "ok", NoId, Ids(r.result),
                                      [project |-> project, limit |-> limit])
                    /\ UNCHANGED <<nextId, links, sideVars>>

\* MemoryStore.context
Context(query, cwd, limit, current_role, maxCount) ==
    LET project == DetectProject(cwd)
    IN  IF project # NoProject
        THEN \E c1 \in QueryResults(vectors, query, 2 * limit, project, {}) :
             \E c2 \in QueryResults(vectors, query, 2 * limit, NoProject, {}) :
                LET r1 == RecallOn(Cur, query, limit, {}, current_role, c1)
                    r2 == RecallOn(r1.store, query, limit, {}, current_role, c2)
                    IsUniversal(m) == m.project = NoProject
                    universal == SelectSeq(r2.result, IsUniversal)
                    unique == Unique(r1.result \o universal, {})
                    memories == SubSeq(unique, 1, Min(limit, Len(unique)))
                IN  /\ CanSurface(records, c1, 2, maxCount)
                    /\ CanSurface(records, c2, 2, maxCount)
                    /\ Apply(r2.store)
                    /\ last' = Called("context", "ok", NoId, Ids(memories),
                                      [project |-> project, limit |-> limit])
                    /\ UNCHANGED <<nextId, links, sideVars>>
        ELSE \E cands \in QueryResults(vectors, query, 2 * limit, NoProject, {}) :
                LET r == RecallOn(Cur, query, limit, {}, current_role, cands)
                IN  /\ CanSurface(records, cands, 1, maxCount)
                    /\ Apply(r.store)
                    /\ last' = Called("context", "ok", NoId, Ids(r.result),
                                      [project |-> project, limit |-> limit])
                    /\ UNCHANGED <<nextId, links, sideVars>>

\* update_memory writing the index with upsert instead of update: an entry
\* that was removed from the index comes back
UpdateUpsert(memory_id, fields, content, memory_type, importance) ==
    LET updated == fields # {} /\ memory_id \in DOMAIN records
        row == [records[memory_id] EXCEPT
                  !.content = IF "content" \in fields THEN content ELSE @,
                  !.memory_type = IF "memory_type" \in fields THEN memory_type ELSE @,
                  !.importance = IF "importance" \in fields THEN Clamp(importance) ELSE @]
    IN  /\ records' = IF updated THEN [records EXCEPT ![memory_id] = row] ELSE records
        /\ vectors' = IF updated /\ "content" \in fields
                      THEN Put(vectors, memory_id,
                               VectorEntry(content, row.memory_type, row.project,
                                           row.source_role, row.importance))
                      ELSE vectors
        /\ last' = WithImportance(
                      IF updated THEN Called("update", "ok", memory_id, <<>>, fields)
                      ELSE Called("update", "false", memory_id, <<>>, fields),
                      importance)
        /\ UNCHANGED <<nodes, edges, accessLog, nextId, links, sideVars>>

\* update_memory without its clamp
UpdateUnclamped(memory_id, fields, content, memory_type, importance) ==
    LET updated == fields # {} /\ memory_id \in DOMAIN records
        row == [records[memory_id] EXCEPT
                  !.content = IF "content" \in fields THEN content ELSE @,
                  !.memory_type = IF "memory_type" \in fields THEN memory_type ELSE @,
                  !.importance = IF "importance" \in fields THEN importance ELSE @]
    IN  /\ records' = IF updated THEN [records EXCEPT ![memory_id] = row] ELSE records
        /\ vectors' = IF updated /\ "content" \in fields /\ memory_id \in DOMAIN vectors
                      THEN [vectors EXCEPT ![memory_id].content = content,
                                           ![memory_id].memory_type = row.memory_type,
                                           ![memory_id].project = row.project]
                      ELSE vectors
        /\ last' = WithImportance(
                      IF updated THEN Called("update", "ok", memory_id, <<>>, fields)
                      ELSE Called("update", "false", memory_id, <<>>, fields),
                      importance)
        /\ UNCHANGED <<nodes, edges, accessLog, nextId, links, sideVars>>

\* MemoryStore.update_memory; fields names the arguments that are not None
Update(memory_id, fields, content, memory_type, importance) ==
    LET updated == fields # {} /\ memory_id \in DOMAIN records
        row == [records[memory_id] EXCEPT
                  !.content = IF "content" \in fields THEN content ELSE @,
                  !.memory_type = IF "memory_type" \in fields THEN memory_type ELSE @,
                  !.importance = IF "importance" \in fields THEN Clamp(importance) ELSE @]
    IN  /\ records' = IF updated THEN [records EXCEPT ![memory_id] = row] ELSE records
        /\ vectors' = IF updated /\ "content" \in fields /\ memory_id \in DOMAIN vectors
                      THEN [vectors EXCEPT ![memory_id].content = content,
                                           ![memory_id].memory_type = row.memory_type,
                                           ![memory_id].project = row.project]
                      ELSE vectors
        /\ last' = WithImportance(
                      IF updated THEN Called("update", "ok", memory_id, <<>>, fields)
                      ELSE Called("update", "false", memory_id, <<>>, fields),
                      importance)
        /\ UNCHANGED <<nodes, edges, accessLog, nextId, links, sideVars>>

\* MemoryStore.delete_memory.  KnowledgeGraph defines no remove_node, so the
\* call self.graph.remove_node(memory_id) raises AttributeError, which the
\* surrounding `except Exception: pass` swallows: the graph is not touched.
Delete(memory_id) ==
    LET deleted == memory_id \in DOMAIN records
    IN  /\ records' = Drop(records, {memory_id})
        /\ vectors' = IF deleted THEN Drop(vectors, {memory_id}) ELSE vectors
        /\ last' = IF deleted THEN Called("delete", "ok", memory_id, <<>>, {})
                   ELSE Called("delete", "false", memory_id, <<>>, {})
        /\ UNCHANGED <<nodes, edges, accessLog, nextId, links, sideVars>>

\* consolidate archiving memory_ids[0] only
ConsolidateFirstOnly(memory_ids, first, content, importance, fail, maxMem) ==
    /\ nextId < maxMem
    /\ first \in memory_ids
    /\ LET project == IF first \in DOMAIN records THEN records[first].project
                      ELSE NoProject
           new_id == MemId(nextId + 1)
           r == RememberOn(Cur, new_id, content, "pattern", Clamp(importance),
                           project, NoRole, memory_ids, {}, fail)
           S == r.store
           archived == [S EXCEPT
                          !.records = [m \in DOMAIN S.records |->
                                         IF m = first
                                         THEN [S.records[m] EXCEPT
                                                 !.consolidated_into = new_id]
                                         ELSE S.records[m]],
                          !.vectors = Drop(S.vectors, {first})]
       IN  /\ Apply(IF r.status = "ok" THEN archived ELSE S)
           /\ nextId' = nextId + 1
           /\ last' = WithImportance(
                         Called("consolidate", r.status, new_id, <<>>, memory_ids),
                         importance)
           /\ UNCHANGED <<links, sideVars>>

\* MemoryStore.consolidate(memory_ids, content, "pattern", importance) with
\* memory_ids[0] = first
Consolidate(memory_ids, first, content, importance, fail, maxMem) ==
    /\ nextId < maxMem
    /\ first \in memory_ids
    /\ LET project == IF first \in DOMAIN records THEN records[first].project
                      ELSE NoProject
           new_id == MemId(nextId + 1)
           r == RememberOn(Cur, new_id, content, "pattern", Clamp(importance),
                           project, NoRole, memory_ids, {}, fail)
           S == r.store
           archived == [S EXCEPT
                          !.records = [m \in DOMAIN S.records |->
                                         IF m \in memory_ids
                                         THEN [S.records[m] EXCEPT
                                                 !.consolidated_into = new_id]
                                         ELSE S.records[m]],
                          !.vectors = Drop(S.vectors, memory_ids)]
       IN  /\ Apply(IF r.status = "ok" THEN archived ELSE S)
           /\ nextId' = nextId + 1
           /\ last' = WithImportance(
                         Called("consolidate", r.status, new_id, <<>>, memory_ids),
                         importance)
           /\ UNCHANGED <<links, sideVars>>

\* MemoryStore.add_relationship (the link tool)
Link(source_id, target_id, relation_type, maxLinks) ==
    /\ links < maxLinks
    /\ LET G == [nodes |-> nodes, edges |-> edges]
           r == IF relation_type \in RelationTypes
                THEN GraphAddRelationship(G, source_id, target_id, relation_type,
                                          1000, 1000, "claude", FALSE)
                ELSE [graph |-> G, ok |-> FALSE]
       IN  /\ nodes' = r.graph.nodes
           /\ edges' = r.graph.edges
           /\ links' = links + 1
           /\ UNCHANGED sideVars
           /\ last' = Called("link", IF r.ok THEN "ok" ELSE "false", source_id,
                             <<>>, {target_id})
           /\ UNCHANGED <<records, vectors, accessLog, nextId>>

\* MemoryStore.validate_memory (the validate tool)
Validate(memory_id, maxLinks) ==
    /\ links < maxLinks
    /\ nodes' = GraphValidate(nodes, memory_id)
    /\ links' = links + 1
    /\ UNCHANGED sideVars
    /\ last' = Called("validate", "ok", memory_id, <<>>, {})
    /\ UNCHANGED <<records, vectors, edges, accessLog, nextId>>

\* One call of an operation that reads or writes the record store or the
\* vector index, with its arguments drawn from the input sets I and its
\* counters capped by I's bounds.
StoreStep(I) ==
    \/ \E a \in I.remembers, supersede \in SUBSET GeneratedIds :
         Remember(a.content, a.memory_type, a.importance, a.project,
                  a.source_role, a.check_conflicts, supersede, a.fail,
                  I.maxMem, I.maxCount)
    \/ \E a \in I.recalls :
         Recall(a.query, a.limit, a.project, a.memory_types, a.current_role,
                I.maxCount)
    \/ \E a \in I.contexts :
         Context(a.query, a.cwd, a.limit, a.current_role, I.maxCount)
    \/ \E memory_id \in GeneratedIds, a \in I.updates :
         Update(memory_id, a.fields, a.content, a.memory_type, a.importance)
    \/ \E memory_id \in GeneratedIds : Delete(memory_id)
    \/ \E memory_ids \in SUBSET GeneratedIds \ {{}}, a \in I.consolidations :
         \E first \in memory_ids :
            Consolidate(memory_ids, first, a.content, a.importance, a.fail,
                        I.maxMem)

\* One call of the remember tool.
ToolStep(I) ==
    \E a \in I.remembers, confirmed \in BOOLEAN :
        RememberTool(a.content, a.memory_type, a.importance, a.project,
                     a.source_role, {}, confirmed, I.maxMem, I.maxCount)

\* One call of an operation that touches the knowledge graph only.
GraphStep(I) ==
    \/ \E source_id \in GeneratedIds, target_id \in GeneratedIds,
          relation_type \in I.relations :
         Link(source_id, target_id, relation_type, I.maxLinks)
    \/ \E memory_id \in GeneratedIds : Validate(memory_id, I.maxLinks)

\* MemoryStore.add_entity (the entity tool)
AddEntity(entity_type, name) ==
    LET e == [entity_type |-> entity_type, name |-> name]
        valid == entity_type \in EntityTypes
    IN  /\ nodes' = IF valid THEN GraphAddEntity(nodes, e) ELSE nodes
        /\ last' = IF valid THEN Called("entity", "ok", MakeEntityId(e), <<>>, {})
                   ELSE Called("entity", "false", NoId, <<>>, {})
        /\ UNCHANGED <<records, vectors, edges, accessLog, nextId, links, sideVars>>

\* MemoryStore.add_entity with status, priority and description given
AddEntityWith(entity_type, name, status, priority, description) ==
    LET e == [entity_type |-> entity_type, name |-> name]
        node == [EntityNode(e) EXCEPT !.status = status, !.priority = priority,
                                      !.description = description]
        valid == entity_type \in EntityTypes
    IN  /\ nodes' = IF valid THEN Put(nodes, MakeEntityId(e), node) ELSE nodes
        /\ last' = IF valid
                   THEN Called("entity_with", "ok", MakeEntityId(e), <<>>, {})
                   ELSE Called("entity_with", "false", NoId, <<>>, {})
        /\ UNCHANGED <<records, vectors, edges, accessLog, nextId, links, sideVars>>

\* KnowledgeGraph.get_current_version(memory_id), as get_current_memory
\* calls it; predecessors() raises for an id that is not a node
CurrentVersion(memory_id) ==
    LET r == GetCurrentVersion(nodes, edges, memory_id)
    IN  /\ last' = IF memory_id \in DOMAIN nodes /\ r.returned
                   THEN Called("current_version", "ok", memory_id, <<r.version>>, {})
                   ELSE Called("current_version", "error", memory_id, <<>>, {})
        /\ UNCHANGED <<records, vectors, nodes, edges, accessLog, nextId, links, sideVars>>

\* KnowledgeGraph.add_relationship called on the store's graph with the
\* defaults strength = confidence = 1.0, created_by = "claude"
AddRelationship(source_id, target_id, relation_type, bidirectional, maxLinks) ==
    /\ links < maxLinks
    /\ LET r == GraphAddRelationship([nodes |-> nodes, edges |-> edges],
                                     source_id, target_id, relation_type,
                                     1000, 1000, "claude", bidirectional)
       IN  /\ nodes' = r.graph.nodes
           /\ edges' = r.graph.edges
           /\ links' = links + 1
           /\ UNCHANGED sideVars
           /\ last' = Called("add_relationship", IF r.ok THEN "ok" ELSE "false",
                             source_id, <<>>,
                             [target_id |-> target_id,
                              relation_type |-> relation_type,
                              bidirectional |-> bidirectional])
           /\ UNCHANGED <<records, vectors, accessLog, nextId>>

\* One call of the graph's own add_relationship.
RelationshipStep(I) ==
    \E source_id \in GeneratedIds, target_id \in GeneratedIds,
       relation_type \in I.reversible, bidirectional \in BOOLEAN :
        AddRelationship(source_id, target_id, relation_type, bidirectional,
                        I.maxLinks)

\* One call of the entity tool or of the version lookup.
EntityStep(I) ==
    \/ \E a \in I.entities : AddEntity(a.entity_type, a.name)
    \/ \E memory_id \in GeneratedIds : CurrentVersion(memory_id)

RememberArgs(content, memory_type, check_conflicts, fail) ==
    [content |-> content, memory_type |-> memory_type, importance |-> 800,
     project |-> NoProject, source_role |-> "ai-dev",
     check_conflicts |-> check_conflicts, fail |-> fail]

RecallArgs(query, limit, project, memory_types) ==
    [query |-> query, limit |-> limit, project |-> project,
     memory_types |-> memory_types, current_role |-> "ai-dev"]

ContextArgs(query, cwd, limit) ==
    [query |-> query, cwd |-> cwd, limit |-> limit, current_role |-> "ai-dev"]

UpdateArgs(fields, content, memory_type) ==
    [fields |-> fields, content |-> content, memory_type |-> memory_type,
     importance |-> 800]

LifecycleInputs ==
    [maxMem |-> MaxMem, maxCount |-> MaxCount,
     remembers |-> {RememberArgs(ContentUse, "decision", FALSE, "none"),
                    RememberArgs(ContentAvoid, "solution", TRUE, "none"),
                    RememberArgs(ContentUse, "solution", FALSE, "embed"),
                    RememberArgs(ContentUse, "solution", FALSE, "vector"),
                    RememberArgs(ContentUse, "solution", FALSE, "graph")},
     recalls |-> {RecallArgs(ContentUse, 1, NoProject, {}),
                  RecallArgs(ContentUse, 1, NoProject, {"decision"}),
                  RecallArgs(QueryOther, 2, NoProject, {"decision", "pattern"}),
                  RecallArgs(ContentUse, 1, "engram-mcp", {"decision"})},
     contexts |-> {ContextArgs(ContentUse, "/tmp", 1),
                   ContextArgs(ContentAvoid, "/mnt/dev/ai/engram-mcp/src", 2)},
     updates |-> {UpdateArgs({"content"}, ContentAvoid, ""),
                  UpdateArgs({"memory_type", "importance"}, "", "solution"),
                  UpdateArgs({}, "", "")},
     consolidations |-> {[content |-> ContentUse, importance |-> 800,
                          fail |-> "none"],
                         [content |-> ContentUse, importance |-> 800,
                          fail |-> "embed"]},
     relations |-> LinkRelations, maxLinks |-> MaxLinks]

Next == StoreStep(LifecycleInputs) \/ GraphStep(LifecycleInputs)

Spec == Init /\ [][Next]_vars

\* The record-store and vector-index operations with fewer argument choices
\* and no injected failures, so that the surface counters can run up to and
\* past the validation threshold.  (link and validate write the graph only.)
SurfaceInputs ==
    [maxMem |-> SurfaceMaxMem, maxCount |-> SurfaceMaxCount,
     remembers |-> {RememberArgs(ContentUse, "decision", FALSE, "none"),
                    RememberArgs(ContentUse, "solution", TRUE, "none")},
     recalls |-> {RecallArgs(ContentUse, 1, NoProject, {}),
                  RecallArgs(ContentUse, 2, NoProject, {"decision", "pattern"})},
     contexts |-> {ContextArgs(ContentUse, "/mnt/dev/ai/engram-mcp/src", 1)},
     updates |-> {UpdateArgs({"content", "memory_type"}, ContentAvoid, "solution")},
     consolidations |-> {[content |-> ContentUse, importance |-> 800,
                          fail |-> "none"]}]

NextSurface == StoreStep(SurfaceInputs) \/ ToolStep(SurfaceInputs)

SpecSurface == Init /\ [][NextSurface]_vars

\* The write paths of the record store with up to three memories, so that
\* two memories can be consolidated into a third, and with importances
\* below 0 and above 1.
WriteInputs ==
    [maxMem |-> WriteMaxMem, maxCount |-> WriteMaxCount,
     remembers |-> {[RememberArgs(ContentUse, "decision", FALSE, "none")
                       EXCEPT !.importance = -1000],
                    [RememberArgs(ContentAvoid, "decision", FALSE, "vector")
                       EXCEPT !.importance = 2000]},
     recalls |-> {RecallArgs(ContentUse, 2, NoProject, {})},
     updates |-> {[UpdateArgs({"importance"}, "", "") EXCEPT !.importance = 2000],
                  [UpdateArgs({"importance"}, "", "") EXCEPT !.importance = -1000],
                  [UpdateArgs({"importance"}, "", "") EXCEPT !.importance = 300]},
     consolidations |-> {[content |-> ContentUse, importance |-> 2000,
                          fail |-> "none"]}]

NextWrite ==
    \/ \E a \in WriteInputs.remembers :
         Remember(a.content, a.memory_type, a.importance, a.project,
                  a.source_role, a.check_conflicts, {}, a.fail,
                  WriteInputs.maxMem, WriteInputs.maxCount)
    \/ \E a \in WriteInputs.recalls :
         Recall(a.query, a.limit, a.project, a.memory_types, a.current_role,
                WriteInputs.maxCount)
    \/ \E memory_id \in GeneratedIds, a \in WriteInputs.updates :
         Update(memory_id, a.fields, a.content, a.memory_type, a.importance)
    \/ \E memory_ids \in SUBSET GeneratedIds \ {{}}, a \in WriteInputs.consolidations :
         \E first \in memory_ids :
            Consolidate(memory_ids, first, a.content, a.importance, a.fail,
                        WriteInputs.maxMem)

SpecWrite == Init /\ [][NextWrite]_vars

\* remember for the detected project, for another project and for none,
\* and context calls from inside the project's directory and from outside.
ContextInputs ==
    [maxMem |-> ContextMaxMem, maxCount |-> ContextMaxCount,
     remembers |-> {[RememberArgs(ContentUse, "decision", FALSE, "none")
                       EXCEPT !.project = "engram-mcp"],
                    [RememberArgs(ContentAvoid, "decision", FALSE, "none")
                       EXCEPT !.project = "other"],
                    RememberArgs(ContentUse, "decision", FALSE, "none")},
     contexts |-> {ContextArgs(ContentUse, "/mnt/dev/ai/engram-mcp/src", 1),
                   ContextArgs(ContentUse, "/mnt/dev/ai/engram-mcp/src", 2),
                   ContextArgs(ContentUse, "/tmp", 2)}]

NextContext ==
    \/ \E a \in ContextInputs.remembers :
         Remember(a.content, a.memory_type, a.importance, a.project,
                  a.source_role, a.check_conflicts, {}, a.fail,
                  ContextInputs.maxMem, ContextInputs.maxCount)
    \/ \E a \in ContextInputs.contexts :
         Context(a.query, a.cwd, a.limit, a.current_role, ContextInputs.maxCount)
    \/ \E memory_id \in GeneratedIds : Delete(memory_id)

SpecContext == Init /\ [][NextContext]_vars

\* remember and recall with failures inside auto-extraction and inside the
\* access-log append.
FaultInputs ==
    [maxMem |-> FaultMaxMem, maxCount |-> FaultMaxCount,
     remembers |-> {RememberArgs(ContentGoal, "decision", FALSE, "none"),
                    RememberArgs(ContentGoal, "decision", FALSE, "extract"),
                    RememberArgs(ContentUse, "decision", FALSE, "extract")},
     recalls |-> {RecallArgs(ContentGoal, 1, NoProject, {}),
                  RecallArgs(ContentUse, 2, NoProject, {})}]

NextFault ==
    \/ \E a \in FaultInputs.remembers :
         Remember(a.content, a.memory_type, a.importance, a.project,
                  a.source_role, a.check_conflicts, {}, a.fail,
                  FaultInputs.maxMem, FaultInputs.maxCount)
    \/ \E a \in FaultInputs.recalls :
         Recall(a.query, a.limit, a.project, a.memory_types, a.current_role,
                FaultInputs.maxCount)
    \/ \E a \in FaultInputs.recalls :
         RecallLogError(a.query, a.limit, a.project, a.memory_types,
                        a.current_role, FaultInputs.maxCount)

SpecFault == Init /\ [][NextFault]_vars

\* remember and recall by sessions with a role, with the role '' and with
\* none.
RoleInputs ==
    [maxMem |-> RoleMaxMem, maxCount |-> RoleMaxCount,
     remembers |-> {[RememberArgs(ContentUse, "decision", FALSE, "none")
                       EXCEPT !.source_role = role] :
                    role \in {NoRole, EmptyRole, "ai-dev"}},
     recalls |-> {[RecallArgs(ContentUse, 2, NoProject, {})
                     EXCEPT !.current_role = role] :
                  role \in {NoRole, EmptyRole, "ai-dev", "reviewer"}}]

NextRole ==
    \/ \E a \in RoleInputs.remembers :
         Remember(a.content, a.memory_type, a.importance, a.project,
                  a.source_role, a.check_conflicts, {}, a.fail,
                  RoleInputs.maxMem, RoleInputs.maxCount)
    \/ \E a \in RoleInputs.recalls :
         Recall(a.query, a.limit, a.project, a.memory_types, a.current_role,
                RoleInputs.maxCount)

SpecRole == Init /\ [][NextRole]_vars

\* remember with two importances and the same recall over and over, so that
\* one memory can be recalled several times before the other is stored.
RankInputs ==
    [maxMem |-> RankMaxMem, maxCount |-> RankMaxCount,
     remembers |-> {[RememberArgs(ContentUse, "decision", FALSE, "none")
                       EXCEPT !.importance = importance] :
                    importance \in {500, 522}},
     recalls |-> {RecallArgs(ContentUse, 2, NoProject, {}),
                  RecallArgs(ContentUse, 1, NoProject, {})}]

NextRank ==
    \/ \E a \in RankInputs.remembers :
         Remember(a.content, a.memory_type, a.importance, a.project,
                  a.source_role, a.check_conflicts, {}, a.fail,
                  RankInputs.maxMem, RankInputs.maxCount)
    \/ \E a \in RankInputs.recalls :
         Recall(a.query, a.limit, a.project, a.memory_types, a.current_role,
                RankInputs.maxCount)

SpecRank == Init /\ [][NextRank]_vars

\* A goal entity that is added with and without attributes and that a
\* remembered text names ("Goal: monetization").
EntityInputs ==
    [maxMem |-> EntityMaxMem, maxCount |-> 0,
     remembers |-> {RememberArgs(ContentGoal, "decision", FALSE, "none"),
                    RememberArgs(ContentUse, "decision", FALSE, "none")},
     entities |-> {[entity_type |-> "goal", name |-> "monetization"],
                   [entity_type |-> "concept", name |-> "MVP"]},
     statuses |-> {"active", "achieved"},
     priorities |-> {"", "P0"},
     descriptions |-> {"", "Earn from the channel"}]

NextEntity ==
    \/ \E a \in EntityInputs.remembers :
         Remember(a.content, a.memory_type, a.importance, a.project,
                  a.source_role, a.check_conflicts, {}, a.fail,
                  EntityInputs.maxMem, EntityInputs.maxCount)
    \/ \E a \in EntityInputs.entities : AddEntity(a.entity_type, a.name)
    \/ \E a \in EntityInputs.entities, status \in EntityInputs.statuses,
          priority \in EntityInputs.priorities,
          description \in EntityInputs.descriptions :
         AddEntityWith(a.entity_type, a.name, status, priority, description)

SpecEntity == Init /\ [][NextEntity]_vars

\* ------------------------------------------------ threads on one graph
\* Two threads call validate_memory and add_relationship of one
\* KnowledgeGraph.  Neither method nor save() takes a lock, so a thread can
\* be suspended between any two statements; a step below is one statement
\* (or one read or write of the shared graph within a statement).
AllIdle == \A t \in Threads : pc[t] = "idle"

\* validate_memory: has_node, and the read of node.get("validation_count", 0)
ValidateRead(t, memory_id, maxCalls) ==
    /\ pc[t] = "idle" /\ links < maxCalls
    /\ memory_id \in DOMAIN nodes
    /\ pc' = [pc EXCEPT ![t] = "validate_write"]
    /\ frame' = [frame EXCEPT ![t] = [op |-> "validate_memory",
                                      memory_id |-> memory_id,
                                      count |-> nodes[memory_id].validation_count]]
    /\ links' = links + 1
    /\ UNCHANGED <<records, vectors, nodes, edges, accessLog, nextId, last, disk, done, helperVars>>

\* validate_memory: node["validation_count"] = <the count read> + 1
ValidateWrite(t) ==
    /\ pc[t] = "validate_write"
    /\ nodes' = [nodes EXCEPT ![frame[t].memory_id].validation_count =
                                  frame[t].count + 1]
    /\ pc' = [pc EXCEPT ![t] = "validate_confidence"]
    /\ UNCHANGED <<records, vectors, edges, accessLog, nextId, links, last, frame, disk, done, helperVars>>

\* validate_memory: validations = node["validation_count"];
\* node["confidence"] = min(0.95, 0.5 + 0.1 * validations)
ValidateConfidence(t) ==
    /\ pc[t] = "validate_confidence"
    /\ nodes' = [nodes EXCEPT ![frame[t].memory_id].confidence =
                    Min(950, 500 + 100 * nodes[frame[t].memory_id].validation_count)]
    /\ pc' = [pc EXCEPT ![t] = "save_data"]
    /\ UNCHANGED <<records, vectors, edges, accessLog, nextId, links, last, frame, disk, done, helperVars>>

\* add_relationship up to its call of save() (both ends are nodes)
RelationshipAdd(t, source_id, target_id, relation_type, maxCalls) ==
    /\ pc[t] = "idle" /\ links < maxCalls
    /\ source_id \in DOMAIN nodes /\ target_id \in DOMAIN nodes
    /\ edges' = GraphAddRelationship([nodes |-> nodes, edges |-> edges],
                                     source_id, target_id, relation_type,
                                     1000, 1000, "claude", FALSE).graph.edges
    /\ pc' = [pc EXCEPT ![t] = "save_data"]
    /\ frame' = [frame EXCEPT ![t] = [op |-> "add_relationship",
                                      memory_id |-> source_id]]
    /\ links' = links + 1
    /\ UNCHANGED <<records, vectors, nodes, accessLog, nextId, last, disk, done, helperVars>>

\* save: data = nx.node_link_data(self.graph)
SaveData(t) ==
    /\ pc[t] = "save_data"
    /\ frame' = [frame EXCEPT ![t] = frame[t] @@ [data |-> [nodes |-> nodes,
                                                            edges |-> edges]]]
    /\ pc' = [pc EXCEPT ![t] = "save_write"]
    /\ UNCHANGED <<records, vectors, nodes, edges, accessLog, nextId, links, last, disk, done, helperVars>>

\* save: open(graph_path, 'w') and json.dump(data, f); the call returns
SaveWrite(t) ==
    /\ pc[t] = "save_write"
    /\ disk' = frame[t].data
    /\ done' = IF frame[t].op = "validate_memory"
               THEN LET m == frame[t].memory_id
                    IN  Put(done, m, (IF m \in DOMAIN done THEN done[m] ELSE 0) + 1)
               ELSE done
    /\ last' = Called(frame[t].op, "ok", frame[t].memory_id, <<>>, {})
    /\ pc' = [pc EXCEPT ![t] = "idle"]
    /\ frame' = [frame EXCEPT ![t] = NoFrame]
    /\ UNCHANGED <<records, vectors, nodes, edges, accessLog, nextId, links, helperVars>>

\* the store after two remember calls, with the snapshot their save() wrote
TwoMemories ==
    LET empty == [records |-> <<>>, vectors |-> <<>>, nodes |-> <<>>,
                  edges |-> {}, accessLog |-> <<>>]
        one == RememberOn(empty, MemId(1), ContentUse, "decision", 500,
                          NoProject, NoRole, {}, {}, "none").store
    IN  RememberOn(one, MemId(2), ContentGoal, "decision", 500, NoProject,
                   NoRole, {}, {}, "none").store

InitThreads ==
    /\ records = TwoMemories.records
    /\ vectors = TwoMemories.vectors
    /\ nodes = TwoMemories.nodes
    /\ edges = TwoMemories.edges
    /\ accessLog = TwoMemories.accessLog
    /\ nextId = 2
    /\ links = 0
    /\ last = Called("remember", "ok", MemId(2), <<>>, {})
    /\ pc = [t \in Threads |-> "idle"]
    /\ frame = [t \in Threads |-> NoFrame]
    /\ disk = [nodes |-> TwoMemories.nodes, edges |-> TwoMemories.edges]
    /\ done = <<>>
    /\ health = <<>>
    /\ cache = <<>>
    /\ outcomes = <<>>
    /\ uses = <<>>

NextThreads ==
    \/ \E t \in Threads, memory_id \in GeneratedIds :
         ValidateRead(t, memory_id, ThreadMaxCalls)
    \/ \E t \in Threads : ValidateWrite(t)
    \/ \E t \in Threads : ValidateConfidence(t)
    \/ \E t \in Threads, source_id \in GeneratedIds, target_id \in GeneratedIds :
         RelationshipAdd(t, source_id, target_id, "requires", ThreadMaxCalls)
    \/ \E t \in Threads : SaveData(t)
    \/ \E t \in Threads : SaveWrite(t)

SpecThreads == InitThreads /\ [][NextThreads]_vars

\* ------------------------------------------------------ ChainMind helper
\* self._fallback_providers (the default) and the cache keys of three
\* different requests
FallbackProviders == <<"openai", "ollama">>
Providers == {"openai", "ollama"}
CacheKeys == {"key_0", "key_1", "key_2"}
NoProvider == ""

\* recent_failures at which _update_provider_health opens the circuit and
\* at which _check_provider_health reports the provider unhealthy
FailureThreshold == 3

\* the tracking entry _update_provider_health creates.  successes,
\* failures and the two timestamps are written but never read; they are
\* left out.
NewHealth == [recent_failures |-> 0, circuit_open |-> FALSE]

\* _check_provider_health with no tactical router to ask: the local
\* tracking decides
CheckProviderHealth(H, provider) ==
    IF provider \in DOMAIN H
    THEN ~H[provider].circuit_open
         /\ H[provider].recent_failures < FailureThreshold
    ELSE TRUE

\* _update_provider_health with a success that leaves recent_failures as
\* it is
UpdateProviderHealthKeepCount(H, provider, success) ==
    LET h == IF provider \in DOMAIN H THEN H[provider] ELSE NewHealth
    IN  Put(H, provider,
            IF success THEN [h EXCEPT !.circuit_open = FALSE]
            ELSE [recent_failures |-> h.recent_failures + 1,
                  circuit_open |-> h.circuit_open
                                   \/ h.recent_failures + 1 >= FailureThreshold])

UpdateProviderHealth(H, provider, success) ==
    LET h == IF provider \in DOMAIN H THEN H[provider] ELSE NewHealth
    IN  Put(H, provider,
            IF success THEN [recent_failures |-> 0, circuit_open |-> FALSE]
            ELSE [recent_failures |-> h.recent_failures + 1,
                  circuit_open |-> h.circuit_open
                                   \/ h.recent_failures + 1 >= FailureThreshold])

\* the last n elements of s
LastN(s, n) == SubSeq(s, Max(1, Len(s) - n + 1), Len(s))

\* O with one more health update of the provider remembered
Remembered(O, provider, success) ==
    Put(O, provider,
        LastN(Append(IF provider \in DOMAIN O THEN O[provider] ELSE <<>>, success),
              OutcomeWindow))

\* OrderedDict.move_to_end(key), also for a key that was just assigned
MoveToEnd(C, key) ==
    LET Other(k) == k # key
    IN  Append(SelectSeq(C, Other), key)

\* a cache hit that leaves the key where it is
CacheHitInPlace(C, key) == C

\* the cache hit of the generate paths
CacheHit(C, key) == MoveToEnd(C, key)

\* _cache_result
CacheResult(C, key, cache_size) ==
    LET added == MoveToEnd(C, key)
    IN  IF Len(added) > cache_size THEN Tail(added) ELSE added

\* the provider loop of _generate_with_fallback_skip_claude from the i-th
\* provider on: an unhealthy provider is skipped, a healthy one is tried
\* (_try_provider_with_timeout) and its outcome recorded; the first
\* success ends the loop.  works[p]: a request to p succeeds.
RECURSIVE TryProviders(_, _, _, _, _)
TryProviders(H, O, i, works, attempted) ==
    IF i > Len(FallbackProviders)
    THEN [health |-> H, outcomes |-> O, attempted |-> attempted,
          provider |-> NoProvider]
    ELSE LET p == FallbackProviders[i]
         IN  IF ~CheckProviderHealth(H, p)
             THEN TryProviders(H, O, i + 1, works, attempted)
             ELSE IF works[p]
             THEN [health |-> UpdateProviderHealth(H, p, TRUE),
                   outcomes |-> Remembered(O, p, TRUE),
                   attempted |-> Append(attempted, p), provider |-> p]
             ELSE TryProviders(UpdateProviderHealth(H, p, FALSE),
                               Remembered(O, p, FALSE), i + 1, works,
                               Append(attempted, p))

helperFrame == <<records, vectors, nodes, edges, accessLog, nextId, links, threadVars>>

\* generate(prompt, prefer_claude=False), which is
\* _generate_with_fallback_skip_claude: a cached response, or the provider
\* loop and, after a success, _cache_result
Generate(key, works) ==
    IF key \in Range(cache)
    THEN /\ cache' = CacheHit(cache, key)
         /\ uses' = MoveToEnd(uses, key)
         /\ last' = Called("generate", "from_cache", NoProvider, <<>>, {key})
         /\ UNCHANGED <<health, outcomes, helperFrame>>
    ELSE LET r == TryProviders(health, outcomes, 1, works, <<>>)
             ok == r.provider # NoProvider
         IN  /\ health' = r.health
             /\ outcomes' = r.outcomes
             /\ cache' = IF ok THEN CacheResult(cache, key, CacheSize) ELSE cache
             /\ uses' = IF ok THEN MoveToEnd(uses, key) ELSE uses
             /\ last' = Called("generate", IF ok THEN "ok" ELSE "error",
                               r.provider, r.attempted, {key})
             /\ UNCHANGED helperFrame

\* _update_provider_health called on its own, as the helper's tests do
UpdateHealth(provider, success) ==
    /\ IF success \/ provider \notin DOMAIN health THEN TRUE
       ELSE health[provider].recent_failures < HelperMaxFailures
    /\ health' = UpdateProviderHealth(health, provider, success)
    /\ outcomes' = Remembered(outcomes, provider, success)
    /\ last' = Called("update_provider_health", "ok", provider, <<>>, {success})
    /\ UNCHANGED <<cache, uses, helperFrame>>

NextHelper ==
    \/ \E key \in CacheKeys, works \in [Providers -> BOOLEAN] :
         Generate(key, works)
    \/ \E provider \in Providers, success \in BOOLEAN :
         UpdateHealth(provider, success)

SpecHelper == Init /\ [][NextHelper]_vars

\* generate calls only, and they keep arriving: some call is always taken
\* in the end, and so is a call that finds every provider working (the
\* providers have recovered).
AllWork == [p \in Providers |-> TRUE]

GenerateRecovered == \E key \in CacheKeys : Generate(key, AllWork)

NextHelperLive ==
    \E key \in CacheKeys, works \in [Providers -> BOOLEAN] : Generate(key, works)

SpecHelperLive ==
    Init /\ [][NextHelperLive]_vars
         /\ WF_vars(NextHelperLive) /\ WF_vars(GenerateRecovered)

\* The operations that write or read the graph, with up to three memories:
\* remember with every supersede list, link, validate, the entity tool and
\* the version lookup.
GraphInputs ==
    [maxMem |-> GraphMaxMem, maxCount |-> 0, maxLinks |-> GraphMaxLinks,
     remembers |-> {RememberArgs(ContentUse, "decision", FALSE, "none"),
                    RememberArgs(ContentGoal, "decision", FALSE, "none")},
     relations |-> {"supersedes", "requires", "bogus"},
     reversible |-> {"supersedes", "precedes", "requires", "mentions"},
     entities |-> {[entity_type |-> "concept", name |-> "mvp"],
                   [entity_type |-> "concept", name |-> "MVP"],
                   [entity_type |-> "recipe", name |-> "mvp"]}]

NextGraph ==
    \/ \E a \in GraphInputs.remembers, supersede \in SUBSET GeneratedIds :
         Remember(a.content, a.memory_type, a.importance, a.project,
                  a.source_role, a.check_conflicts, supersede, a.fail,
                  GraphInputs.maxMem, GraphInputs.maxCount)
    \/ GraphStep(GraphInputs)
    \/ EntityStep(GraphInputs)
    \/ RelationshipStep(GraphInputs)

SpecGraph == Init /\ [][NextGraph]_vars

\* ================================================================== claims
MemoryNodes == {n \in DOMAIN nodes : nodes[n].node_type = "memory"}

\* C1 (tri-store consistency): after any sequence of calls, every memory
\* whose status (the status attribute of its graph node, the only place the
\* engine keeps one) is active has its Record row, its Vector entry and its
\* graph node of kind memory under the same id.  records, vectors and nodes
\* are keyed by id, so "exactly one" is "the id is in the domain".
TriStoreConsistency ==
    \A m \in MemoryNodes :
        nodes[m].status = "active" =>
            m \in DOMAIN records /\ m \in DOMAIN vectors

\* C2: after delete(id) on an existing memory the id is in none of the three
\* stores (get(id) is the lookup of the Record row).
DeleteRemovesEverywhere ==
    (last.op = "delete" /\ last.status = "ok") =>
        /\ last.id \notin DOMAIN records
        /\ last.id \notin DOMAIN vectors
        /\ last.id \notin DOMAIN nodes

IsSuperseded(R, m) == m \in DOMAIN R /\ R[m].superseded_by # NoId

\* C3: a remember that completes keeps the Record row of every memory in
\* its supersede list and leaves it without a Vector entry; from then on,
\* whatever is called (update of that memory included), a memory whose
\* Record says it is superseded has no Vector entry, and every memory a
\* recall or context call returns has a Record row that is not superseded.
SupersededNeverReturned ==
    [][ /\ \A m \in DOMAIN records' :
              IsSuperseded(records', m) => m \notin DOMAIN vectors'
        /\ (last'.op \in {"recall", "context"}) =>
              \A i \in DOMAIN last'.result :
                  /\ last'.result[i] \in DOMAIN records'
                  /\ ~IsSuperseded(records', last'.result[i])
        /\ (last'.op = "remember" /\ last'.status = "ok") =>
              \A m \in last'.args \cap DOMAIN records :
                  IsSuperseded(records', m) /\ m \notin DOMAIN vectors'
      ]_vars

\* a recall returned something while a memory superseded by a completed
\* remember, and rewritten by update since, is in the Record Store
SupersededWitness ==
    /\ last.op = "recall" /\ last.result # <<>>
    /\ \E m \in DOMAIN records :
          /\ records[m].superseded_by \in DOMAIN vectors
          /\ records[m].content = ContentAvoid
          /\ records[m].memory_type = "decision"

\* C4: a remember that ends in EmbedError has written nothing: the Record
\* Store, the Vector Index and the Graph are as they were before the call.
EmbedErrorWritesNothing ==
    [][ (last'.op = "remember" /\ last'.status = "EmbedError") =>
            UNCHANGED <<records, vectors, nodes, edges>> ]_vars

\* C5: when the Vector write or the Graph write of remember fails, no store
\* holds the new id when remember returns.
StorageErrorRollsBack ==
    (last.op = "remember" /\ last.status = "StorageError") =>
        /\ last.id \notin DOMAIN records
        /\ last.id \notin DOMAIN vectors
        /\ last.id \notin DOMAIN nodes

\* C6: access_count and surface_count of a memory never decrease, and a
\* recall adds exactly 1 to both counters of every memory it returns.
CountersGrow ==
    [][ /\ \A m \in DOMAIN records \cap DOMAIN records' :
              /\ records'[m].access_count >= records[m].access_count
              /\ records'[m].surface_count >= records[m].surface_count
        /\ (last'.op = "recall" /\ last'.status = "ok") =>
              \A i \in DOMAIN last'.result :
                  LET m == last'.result[i]
                  IN  /\ m \in DOMAIN records /\ m \in DOMAIN records'
                      /\ records'[m].access_count = records[m].access_count + 1
                      /\ records'[m].surface_count = records[m].surface_count + 1
      ]_vars

\* a recall returned two memories, each of them counted before
CountersWitness ==
    /\ last.op = "recall" /\ Len(last.result) = 2
    /\ \A i \in DOMAIN last.result :
          /\ records[last.result[i]].access_count >= 2
          /\ records[last.result[i]].surface_count >= 2

\* C7: a recall leaves both counters unchanged for every memory that is not
\* in the list it returns, whether the index did not fetch it or it was
\* fetched and dropped by the limit or by the memory_types filter.
RecallCountsOnlyReturned ==
    [][ (last'.op = "recall") =>
            \A m \in (DOMAIN records \cap DOMAIN records') \ Range(last'.result) :
                /\ records'[m].access_count = records[m].access_count
                /\ records'[m].surface_count = records[m].surface_count ]_vars

\* C8: validated is false while surface_count is below the threshold, true
\* as soon as a recall brings surface_count to it, and no operation turns
\* it back to false.
ValidatedAtThreshold ==
    [][ \A m \in DOMAIN records' :
            /\ records'[m].validated <=>
                    (records'[m].surface_count >= ValidationThreshold)
            /\ (m \in DOMAIN records /\ records[m].validated) =>
                    records'[m].validated ]_vars

\* a memory counted past the threshold is validated, and has been updated
\* since
ValidatedWitness ==
    /\ last.op = "update" /\ last.status = "ok"
    /\ last.id \in DOMAIN records
    /\ records[last.id].validated
    /\ records[last.id].surface_count > ValidationThreshold

\* C9: a remember that returns conflicts_found has written nothing: the
\* Record Store (counters and validated flags included), the Vector Index,
\* the Graph and the access log are as they were before the call, and no id
\* was generated.
ConflictsFoundWritesNothing ==
    [][ (last'.op = "remember" /\ last'.status = "conflicts_found") =>
            UNCHANGED <<records, vectors, nodes, edges, accessLog, nextId>> ]_vars

\* C10: when remember(..., supersede) returns the new id, every existing
\* memory of the supersede list has superseded_by equal to the new id in its
\* Record, is the target of a supersedes edge from the new id, and has graph
\* status superseded.
SupersedeMarksBothStores ==
    (last.op = "remember" /\ last.status = "ok") =>
        \A old \in last.args \cap DOMAIN records :
            /\ records[old].superseded_by = last.id
            /\ \E e \in edges :
                  e.src = last.id /\ e.dst = old /\ e.edge_type = "supersedes"
            /\ old \in DOMAIN nodes /\ nodes[old].status = "superseded"

\* the memories and entities that supersede one of S, directly or through
\* a chain of supersedes edges, together with S
RECURSIVE NewerClosure(_, _)
NewerClosure(E, S) ==
    LET S2 == S \cup {e.src : e \in {x \in E : x.edge_type = "supersedes"
                                               /\ x.dst \in S}}
    IN  IF S2 = S THEN S ELSE NewerClosure(E, S2)

\* the nodes that supersede m, directly or through a chain
StrictlyNewer(E, m) ==
    NewerClosure(E, {e.src : e \in {x \in E : x.edge_type = "supersedes"
                                              /\ x.dst = m}})

\* C11: get_current_version(M) returns a version at the end of M's
\* supersedes chain: M itself when nothing supersedes M, otherwise a memory
\* that supersedes M through the chain, and in both cases one that no
\* memory supersedes.
CurrentVersionIsNewest ==
    (last.op = "current_version" /\ last.status = "ok") =>
        LET v == last.result[1]
        IN  /\ v \in NewerClosure(edges, {last.id})
            /\ SupersededBy(edges, v) = NoId
            /\ (SupersededBy(edges, last.id) = NoId) => v = last.id

\* C12: after any sequence of remember (with supersede lists) and link
\* calls, no node supersedes itself through a chain of supersedes edges.
SupersedesAcyclic ==
    \A m \in DOMAIN nodes : m \notin StrictlyNewer(edges, m)

\* C13: in every reachable graph, get_current_version(M) reaches its return
\* for every memory node M within one iteration per node of the graph.
GetCurrentVersionTerminates ==
    \A m \in MemoryNodes : GetCurrentVersion(nodes, edges, m).returned

\* the version lookup was asked for a memory on a supersedes cycle, and
\* returned after moving to another memory of the cycle
TerminatesWitness ==
    /\ last.op = "current_version" /\ last.status = "ok"
    /\ last.id \in StrictlyNewer(edges, last.id)
    /\ last.result[1] # last.id

\* C14: for every memory node of the graph whose Record exists, the node's
\* memory_type and source_role equal the Record's, whatever was called
\* before (update of the memory_type included).
GraphMirrorsRecord ==
    \A m \in MemoryNodes \cap DOMAIN records :
        /\ nodes[m].memory_type = records[m].memory_type
        /\ nodes[m].source_role = records[m].source_role

\* C15: every Vector entry mirrors its Record: its document is the
\* Record's current content and its metadata (memory_type, project,
\* source_role, importance) are the Record's current values.
VectorMirrorsRecord ==
    \A m \in DOMAIN vectors \cap DOMAIN records :
        vectors[m] = VectorEntry(records[m].content, records[m].memory_type,
                                 records[m].project, records[m].source_role,
                                 records[m].importance)

\* C16: every memory a recall(memory_types=S, project=P) returns has, in
\* its current Record, a memory_type in S (when S is given) and project P
\* (when P is given).
RecallHonoursFilters ==
    (last.op = "recall" /\ last.status = "ok") =>
        \A i \in DOMAIN last.result :
            LET row == records[last.result[i]]
            IN  /\ (last.args.memory_types # {}) =>
                        row.memory_type \in last.args.memory_types
                /\ (last.args.project # NoProject) =>
                        row.project = last.args.project

EntityNodes(N) == {n \in DOMAIN N : N[n].node_type = "entity"}

SameEntity(a, b) ==
    a.entity_type = b.entity_type /\ Lower(a.name) = Lower(b.name)

\* C17: the graph never holds two entity nodes with equal entity_type and
\* lowercased name, and add_entity(T, N) returns the id of the node that
\* already stands for (T, lower(N)) when there is one, so that a second
\* call returns the same id as the first.
EntityIdsCanonical ==
    [][ /\ \A a, b \in EntityNodes(nodes') :
              SameEntity(nodes'[a], nodes'[b]) => a = b
        /\ (last'.op = "entity" /\ last'.status = "ok") =>
              /\ last'.id \in EntityNodes(nodes')
              /\ \A x \in EntityNodes(nodes) :
                    SameEntity(nodes[x], nodes'[last'.id]) => x = last'.id
      ]_vars

\* the entity tool was called with "mvp" for a concept that a remember had
\* extracted as "MVP" and linked by a mentions edge
EntityWitness ==
    /\ last.op = "entity" /\ last.status = "ok"
    /\ nodes[last.id].name = "mvp"
    /\ \E e \in edges : e.dst = last.id /\ e.edge_type = "mentions"

EdgesAreKept ==
    [][ \A e \in edges :
            (\E x \in edges' : /\ x.src = e.src /\ x.dst = e.dst
                                /\ x.edge_type # e.edge_type)
            => e \in edges' ]_vars

\* C20: after a remember that completes, the graph holds a mentions edge
\* (strength 0.5, created_by auto) from the new memory to every entity
\* extracted from its content and to its project entity.
MentionsEveryEntity ==
    (last.op = "remember" /\ last.status = "ok") =>
        LET row == records[last.id]
            entities == ExtractEntities(row.content)
                        \o (IF row.project # NoProject
                            THEN <<[entity_type |-> "project", name |-> row.project]>>
                            ELSE <<>>)
        IN  \A i \in DOMAIN entities :
                \E e \in edges :
                    /\ e.src = last.id /\ e.dst = MakeEntityId(entities[i])
                    /\ e.edge_type = "mentions"
                    /\ e.strength = 500 /\ e.created_by = "auto"

\* the reverse-pair table of the relationship vocabulary
ReversePairs ==
    {<<"supersedes", "precedes">>, <<"precedes", "supersedes">>,
     <<"caused_by", "resulted_in">>, <<"resulted_in", "caused_by">>,
     <<"blocked_by", "blocks">>, <<"blocks", "blocked_by">>,
     <<"part_of", "contains">>, <<"contains", "part_of">>,
     <<"requires", "enables">>, <<"enables", "requires">>}

\* C21: after add_relationship(src, dst, L, bidirectional=true) has added
\* src -L-> dst, the graph holds the reverse edge dst -R-> src for the
\* reverse R of L in the reverse-pair table, for every L that has one.
ReverseEdgeWritten ==
    (/\ last.op = "add_relationship" /\ last.status = "ok"
     /\ last.args.bidirectional) =>
        \A p \in ReversePairs :
            p[1] = last.args.relation_type =>
                \E e \in edges : /\ e.src = last.args.target_id
                                  /\ e.dst = last.id
                                  /\ e.edge_type = p[2]

\* C22: when consolidate(ids, content) returns the new id N, every memory
\* of ids (every id with a Record row) has consolidated_into = N and no
\* Vector entry, and still has its Record row, its graph node and every
\* graph edge it had; a recall never returns a memory whose Record says it
\* was consolidated.
ConsolidateArchivesOriginals ==
    [][ /\ (last'.op = "consolidate" /\ last'.status = "ok") =>
              \A m \in last'.args \cap DOMAIN records :
                  /\ m \in DOMAIN records'
                  /\ records'[m].consolidated_into = last'.id
                  /\ m \notin DOMAIN vectors'
                  /\ m \in DOMAIN nodes => m \in DOMAIN nodes'
                  /\ \A e \in edges : (e.src = m \/ e.dst = m) => e \in edges'
        /\ (last'.op = "recall" /\ last'.status = "ok") =>
              \A i \in DOMAIN last'.result :
                  records'[last'.result[i]].consolidated_into = NoId
      ]_vars

\* two memories, each with a graph node and a mentions edge, were
\* consolidated into a third
ConsolidateWitness ==
    /\ last.op = "consolidate" /\ last.status = "ok"
    /\ Cardinality(last.args) = 2
    /\ \A m \in last.args :
          /\ m \in DOMAIN records /\ records[m].consolidated_into = last.id
          /\ m \in DOMAIN nodes
          /\ \E e \in edges : e.src = m /\ e.edge_type = "mentions"

\* C23: a context call for which project P was detected returns at most
\* `limit` memories, none of them twice, every one of project P or of no
\* project, those of project P before those of no project, and starts with
\* a memory of project P whenever the index holds one.
ContextProjectFirst ==
    (last.op = "context" /\ last.args.project # NoProject) =>
        LET result == last.result
            P == last.args.project
            Project(i) == records[result[i]].project
        IN  /\ Len(result) <= last.args.limit
            /\ \A i, j \in DOMAIN result : result[i] = result[j] => i = j
            /\ \A i \in DOMAIN result : Project(i) \in {P, NoProject}
            /\ \A i, j \in DOMAIN result :
                  (Project(i) = NoProject /\ Project(j) = P) => j < i
            /\ (\E m \in DOMAIN vectors \cap DOMAIN records :
                    vectors[m].project = P)
               => (result # <<>> /\ Project(1) = P)

\* a context call returned a memory of the project followed by a universal
\* one while the store holds a memory of another project
ContextWitness ==
    /\ last.op = "context" /\ last.args.project = "engram-mcp"
    /\ Len(last.result) = 2
    /\ records[last.result[1]].project = "engram-mcp"
    /\ records[last.result[2]].project = NoProject
    /\ \E m \in DOMAIN vectors : vectors[m].project = "other"

\* max(0.0, min(1.0, x)) as the claim states it
ClampedToUnit(x) == IF x < 0 THEN 0 ELSE IF x > 1000 THEN 1000 ELSE x

\* C24: every stored importance lies in [0,1], and the importance a
\* remember, an update (given an importance) or a consolidate leaves in the
\* Record is the clamp of its input: 0.0 for -1.0, 1.0 for 2.0.
ImportanceClamped ==
    [][ /\ \A m \in DOMAIN records' : records'[m].importance \in 0..1000
        /\ \A m \in DOMAIN vectors' : vectors'[m].importance \in 0..1000
        /\ (/\ last'.op \in {"remember", "consolidate"}
            /\ last'.status \in {"ok", "StorageError"}) =>
              records'[last'.id].importance = ClampedToUnit(last'.importance)
        /\ (/\ last'.op = "update" /\ last'.status = "ok"
            /\ "importance" \in last'.args) =>
              records'[last'.id].importance = ClampedToUnit(last'.importance)
      ]_vars

\* an update given 2.0 left 1.0 in the Record of a memory remembered with
\* -1.0
ImportanceWitness ==
    /\ last.op = "update" /\ last.status = "ok" /\ last.importance = 2000
    /\ records[last.id].importance = 1000
    /\ vectors[last.id].importance = 0

\* C25: an update, a delete or a validate given an id that names no memory
\* (no Record row) reports failure and leaves the Record Store, the Vector
\* Index, the Graph and the access log as they were.
UnknownIdReportsNotFound ==
    [][ (/\ last'.op \in {"update", "delete", "validate"}
         /\ last'.id \notin DOMAIN records) =>
            /\ last'.status = "false"
            /\ UNCHANGED <<records, vectors, nodes, edges, accessLog>> ]_vars

\* C26: a remember during which auto-extraction fails still returns the new
\* id, with the memory in the Record Store, the Vector Index and the Graph;
\* a recall during which the access-log appends fail still returns its
\* results (as many as its limit and the index allow).
FaultsAreSwallowed ==
    [][ /\ (last'.op = "remember" /\ last'.fail = "extract") =>
              /\ last'.status = "ok"
              /\ last'.id \in DOMAIN records'
              /\ last'.id \in DOMAIN vectors'
              /\ last'.id \in DOMAIN nodes'
        /\ (last'.op = "recall" /\ "fail" \in DOMAIN last'
            /\ last'.fail = "log") =>
              /\ last'.status = "ok"
              /\ Len(last'.result)
                    = Min(last'.args.limit, Cardinality(DOMAIN vectors))
      ]_vars

\* C27: the remember tool called without confirmed=true returns a preview
\* and writes nothing: no memory is created, and the Record Store (counters
\* and validated flags included), the Vector Index, the Graph and the
\* access log are as they were before the call.
PreviewWritesNothing ==
    [][ (last'.op = "remember_tool" /\ last'.status = "preview") =>
            UNCHANGED <<records, vectors, nodes, edges, accessLog, nextId>> ]_vars

\* C28: a validate_memory(id) call on a memory node adds 1 to its
\* validation_count, sets its confidence to min(0.95, 0.5 + 0.1 x
\* validation_count), and that confidence is not below the confidence the
\* node had before the call.
ValidateRaisesConfidence ==
    [][ (last'.op = "validate" /\ last'.id \in DOMAIN nodes) =>
            LET before == nodes[last'.id]
                after == nodes'[last'.id]
            IN  /\ after.validation_count = before.validation_count + 1
                /\ after.confidence
                      = Min(950, 500 + 100 * after.validation_count)
                /\ after.confidence >= before.confidence ]_vars

\* the number n of the id mem_n: ids are handed out in the order of
\* creation, so a greater number is a later created_at
CreatedAt(id) == CHOOSE n \in 1..Len(MemIdNames) : MemIdNames[n] = id

\* C29 as stated: a recall returns its results by descending relevance,
\* those of equal relevance by descending access_count, and those equal in
\* both the newer first.
SortedWithTieBreak ==
    (last.op = "recall" /\ last.status = "ok" /\ "ranked" \in DOMAIN last) =>
        \A i, j \in DOMAIN last.ranked :
            i < j =>
                LET a == last.ranked[i]
                    b == last.ranked[j]
                IN  \/ a.relevance > b.relevance
                    \/ /\ a.relevance = b.relevance
                       /\ a.access_count > b.access_count
                    \/ /\ a.relevance = b.relevance
                       /\ a.access_count = b.access_count
                       /\ CreatedAt(a.id) > CreatedAt(b.id)

\* C29 (amended): a recall returns its results by descending relevance, and
\* results of equal relevance in the order in which the Vector Index
\* returned them.
SortedByRelevanceStable ==
    (last.op = "recall" /\ last.status = "ok" /\ "ranked" \in DOMAIN last) =>
        \A i, j \in DOMAIN last.ranked :
            i < j =>
                LET a == last.ranked[i]
                    b == last.ranked[j]
                IN  \/ a.relevance > b.relevance
                    \/ /\ a.relevance = b.relevance
                       /\ a.fetched_at < b.fetched_at

\* a recall returned two memories, the one the index had returned second
\* before the other
SortedWitness ==
    /\ last.op = "recall" /\ last.status = "ok" /\ "ranked" \in DOMAIN last
    /\ Len(last.ranked) = 2
    /\ last.ranked[1].fetched_at > last.ranked[2].fetched_at

\* a role is given: neither None nor the empty string, which the engine
\* treats as no role
HasRole(role) == role # NoRole /\ role # EmptyRole

DistinctScores(ranked) ==
    \A i, j \in 1..Len(ranked) :
        i # j => ranked[i].relevance # ranked[j].relevance

\* a successful recall that returned every stored memory
FullRecall(call) ==
    /\ call.op = "recall" /\ call.status = "ok" /\ "ranked" \in DOMAIN call
    /\ {call.result[i] : i \in 1..Len(call.result)} = DOMAIN records

\* C31: a recall that directly follows a recall with the same arguments (no
\* other operation in between) returns the memories in the same order,
\* whenever the scores within each result are pairwise different.
SameOrderOnRepeat ==
    [][(/\ FullRecall(last) /\ FullRecall(last)'
        /\ last'.args = last.args
        /\ DistinctScores(last.ranked) /\ DistinctScores(last'.ranked))
       => last'.result = last.result]_vars

\* no two graph calls are in progress at once
OneCallAtATime == Cardinality({t \in Threads : pc[t] # "idle"}) <= 1

\* every validate_memory call that returned is counted in the graph
NoUpdateLostInMemory ==
    \A m \in DOMAIN done : nodes[m].validation_count = done[m]

\* the snapshot file holds the graph
SnapshotIsCurrent == disk = [nodes |-> nodes, edges |-> edges]

\* C32: graph calls of different threads never interleave, and when no
\* call is in progress no update is missing from the in-memory graph or
\* from the snapshot on disk.
GraphCallsSerialized ==
    /\ OneCallAtATime
    /\ AllIdle => (NoUpdateLostInMemory /\ SnapshotIsCurrent)

\* the number of failures at the end of a provider's remembered updates
RECURSIVE TrailingFailures(_)
TrailingFailures(s) ==
    IF s = <<>> \/ s[Len(s)] THEN 0
    ELSE 1 + TrailingFailures(SubSeq(s, 1, Len(s) - 1))

LeastRecentlyUsed ==
    LET cached == {i \in 1..Len(uses) : uses[i] \in Range(cache)}
    IN  uses[CHOOSE i \in cached : \A j \in cached : i <= j]

\* C34: the cache never holds more than cache_size entries, an entry leaves
\* it only when an insertion into a full cache pushes it out, and the entry
\* pushed out is the least recently used one.
LruEviction ==
    [][/\ Len(cache') <= CacheSize
       /\ LET evicted == Range(cache) \ Range(cache')
          IN  evicted # {} =>
                /\ Len(cache) = CacheSize
                /\ last'.op = "generate" /\ last'.status = "ok"
                /\ last'.args \subseteq Range(cache')
                /\ evicted = {LeastRecentlyUsed}]_vars

\* a response has just been cached and an older entry pushed out
EvictionWitness ==
    /\ last.op = "generate" /\ last.status = "ok"
    /\ Len(cache) = CacheSize
    /\ last.args \subseteq Range(cache)
    /\ Range(uses) \ Range(cache) # {}

\* the provider's circuit is open and nothing was recorded for it since
CircuitJustOpen(p) ==
    /\ p \in DOMAIN health
    /\ health[p].circuit_open
    /\ health[p].recent_failures = FailureThreshold

\* a request went to the provider after its circuit opened: its outcome was
\* recorded, as one more failure or as the success that closes the circuit
TriedAgain(p) ==
    /\ p \in DOMAIN health
    /\ (~health[p].circuit_open \/ health[p].recent_failures > FailureThreshold)

\* C39: while generate calls keep arriving, a provider whose circuit has
\* opened is in the end sent a request again.
OpenCircuitRetried ==
    \A p \in Providers : CircuitJustOpen(p) ~> TriedAgain(p)

\* the supersedes edges between two memory nodes
SupersedesEdges ==
    {e \in edges : /\ e.edge_type = "supersedes"
                   /\ e.src \in MemoryNodes /\ e.dst \in MemoryNodes}

\* C35: the target of every supersedes edge between two memories has the
\* graph status superseded and no vector entry.
SupersedesEdgeMarksTarget ==
    \A e \in SupersedesEdges :
        /\ nodes[e.dst].status = "superseded"
        /\ e.dst \notin DOMAIN vectors

\* C36: for every memory whose record names a superseding memory, the
\* graph's get_superseded_by names the same one.
SupersederAgrees ==
    \A m \in DOMAIN records :
        records[m].superseded_by # NoId =>
            SupersededBy(edges, m) = records[m].superseded_by

\* what the step added to the two counters of a row
AccessAdded(m) == records'[m].access_count - records[m].access_count
SurfaceAdded(m) == records'[m].surface_count - records[m].surface_count

\* C37: a context call adds at most 1 to access_count and to surface_count
\* of a memory, and adds nothing for a memory that is not in its result.
ContextCountsOnce ==
    [][last'.op = "context" =>
          \A m \in DOMAIN records :
              /\ AccessAdded(m) <= 1 /\ SurfaceAdded(m) <= 1
              /\ m \notin Range(last'.result) =>
                    (AccessAdded(m) = 0 /\ SurfaceAdded(m) = 0)]_vars

\* the edges at a node
EdgesAt(E, n) == {e \in E : e.src = n \/ e.dst = n}

\* C38: add_entity with a type and a name only, and remember, leave the
\* status, priority and description of every entity that was already there,
\* and every edge at it, as they were.
ReAddKeepsEntity ==
    [][(last'.op \in {"entity", "remember"} /\ last'.status = "ok") =>
          \A n \in EntityNodes(nodes) :
              /\ n \in DOMAIN nodes'
              /\ nodes'[n].status = nodes[n].status
              /\ nodes'[n].priority = nodes[n].priority
              /\ nodes'[n].description = nodes[n].description
              /\ EdgesAt(edges, n) \subseteq EdgesAt(edges', n)]_vars

====
